---- MODULE Spec2Model ----
(***************************************************************************)
(* Model of the A2UI message validators of zhama-ai/a2ui-core.             *)
(*                                                                         *)
(* Two generations of the hand-rolled validator are in the repository:     *)
(*   validateV09Message  src/src/validators/message-validator.ts           *)
(*   validateMessage     src/unnamed/part_005 (lines 502-580), with        *)
(*                       validateComponents / validateComponentProperties  *)
(* validateMessages is the same loop in both and is modelled once, over    *)
(* the validator it is called with.                                        *)
(***************************************************************************)
EXTENDS Integers, Sequences, FiniteSets, TLC

\* ------------------------------------------------------------------------
\* Bounds of the model
\* ------------------------------------------------------------------------
MaxComponents == 3
MaxProps == 3
MaxMessages == 2
\* the calls made one after the other in one behaviour
MaxCalls == 3
\* the generateId calls of one behaviour
MaxIds == 3
\* the milliseconds that pass in one behaviour
MaxClock == 2
\* the calls that go through getSchemaValidator in one behaviour
MaxSchemaCalls == 3

\* the calls made so far, each with its function, arguments and result
VARIABLE history

\* ------------------------------------------------------------------------
\* JavaScript values.  Every value has the same record shape so that values
\* of different JavaScript types can be compared: t is the type tag, s the
\* string, n the number, b the boolean.  Objects and arrays that the
\* validator never looks into are opaque and named by s.
\* ------------------------------------------------------------------------
Undefined == [t |-> "undefined", s |-> "", n |-> 0, b |-> FALSE]
Null == [t |-> "null", s |-> "", n |-> 0, b |-> FALSE]
Str(x) == [t |-> "string", s |-> x, n |-> 0, b |-> FALSE]
Num(k) == [t |-> "number", s |-> "", n |-> k, b |-> FALSE]
Bool(x) == [t |-> "boolean", s |-> "", n |-> 0, b |-> x]
Obj(x) == [t |-> "object", s |-> x, n |-> 0, b |-> FALSE]
Arr(x) == [t |-> "array", s |-> x, n |-> 0, b |-> FALSE]

\* JavaScript ToBoolean: what !v negates.
Truthy(v) ==
  CASE v.t = "string" -> v.s # ""
    [] v.t = "number" -> v.n # 0
    [] v.t = "boolean" -> v.b
    [] v.t \in {"object", "array"} -> TRUE
    [] OTHER -> FALSE

\* obj.key of a value that may be a primitive: a property read of a string,
\* number or boolean gives undefined; of null or undefined it throws.
CanRead(v) == v.t \notin {"null", "undefined"}
Get(v, key) == IF v.t = "object" THEN v[key] ELSE Undefined

\* ------------------------------------------------------------------------
\* ValidationResult, ValidationError, ValidationWarning
\* ------------------------------------------------------------------------
Issue(code, message, path) == [code |-> code, message |-> message, path |-> path]
\* mutant: warnings count against validity
ValidationResultMutant(errors, warnings) ==
  [threw |-> FALSE, valid |-> Len(errors) = 0 /\ Len(warnings) = 0,
   errors |-> errors, warnings |-> warnings]
ValidationResult(errors, warnings) ==
  [threw |-> FALSE, valid |-> Len(errors) = 0, errors |-> errors, warnings |-> warnings]
\* the call ended in a TypeError instead of returning
Thrown == [threw |-> TRUE, valid |-> FALSE, errors |-> <<>>, warnings |-> <<>>]

STANDARD_COMPONENT_TYPES ==
  <<"Text", "Image", "Icon", "Video", "AudioPlayer", "Row", "Column", "List", "Card",
    "Tabs", "Divider", "Modal", "Button", "CheckBox", "TextField", "DateTimeInput",
    "ChoicePicker", "Slider">>

Range(f) == {f[i] : i \in DOMAIN f}
Includes(list, v) == v.t = "string" /\ v.s \in Range(list)

\* `${v}` / String(v)
ToStr(v) ==
  CASE v.t = "string" -> v.s
    [] v.t = "number" -> ToString(v.n)
    [] v.t = "boolean" -> (IF v.b THEN "true" ELSE "false")
    [] v.t = "object" -> "[object Object]"
    [] v.t = "array" -> v.s
    [] OTHER -> v.t

\* ------------------------------------------------------------------------
\* Shapes of the inputs.  An object the validator reads fields of is a value
\* record (t = "object") extended with those fields; a field that is absent
\* reads as Undefined.
\* ------------------------------------------------------------------------
PropNames ==
  {"text", "url", "name", "children", "child", "tabs", "trigger", "content", "action",
   "label", "value", "options", "min", "max"}
NoProps == [f \in PropNames |-> Undefined]

\* one entry of updateComponents.components
Component(id, kind, props) ==
  [t |-> "object", s |-> "", n |-> 0, b |-> FALSE,
   id |-> id, component |-> kind, props |-> props]
\* an entry that is not an object (null, a string, a number, ...)
PrimComponent(v) ==
  [t |-> v.t, s |-> v.s, n |-> v.n, b |-> v.b,
   id |-> Undefined, component |-> Undefined, props |-> NoProps]
Prop(comp, f) == IF comp.t = "object" THEN comp.props[f] ELSE Undefined

\* the value of updateComponents.components: an array of entries, or anything else
ComponentsArray(items) == [t |-> "array", s |-> "", n |-> 0, b |-> FALSE, items |-> items]
ComponentsOther(v) == [t |-> v.t, s |-> v.s, n |-> v.n, b |-> v.b, items |-> <<>>]

\* theme.primaryColor: chars holds the characters of String(value)
RECURSIVE Join(_)
Join(chars) == IF chars = <<>> THEN "" ELSE Head(chars) \o Join(Tail(chars))
ColorStr(chars) == [t |-> "string", s |-> Join(chars), n |-> 0, b |-> FALSE, chars |-> chars]
ColorOther(v, chars) == [t |-> v.t, s |-> v.s, n |-> v.n, b |-> v.b, chars |-> chars]
Theme(primaryColor) ==
  [t |-> "object", s |-> "", n |-> 0, b |-> FALSE, primaryColor |-> primaryColor]
ThemeOther(v) ==
  [t |-> v.t, s |-> v.s, n |-> v.n, b |-> v.b, primaryColor |-> ColorOther(Undefined, <<>>)]

\* the value under a message key
Body(surfaceId, catalogId, theme, components, op, value) ==
  [t |-> "object", s |-> "", n |-> 0, b |-> FALSE,
   surfaceId |-> surfaceId, catalogId |-> catalogId, theme |-> theme,
   components |-> components, op |-> op, value |-> value]
BodyOther(v) ==
  [t |-> v.t, s |-> v.s, n |-> v.n, b |-> v.b,
   surfaceId |-> Undefined, catalogId |-> Undefined, theme |-> ThemeOther(Undefined),
   components |-> ComponentsOther(Undefined), op |-> Undefined, value |-> Undefined]
NoBody == BodyOther(Undefined)

\* the v0.8 messages of part_005: comp.component is an object whose first own
\* key names the kind; keys is the sequence Object.keys gives
Definition(keys) == [t |-> "object", s |-> "", n |-> 0, b |-> FALSE, keys |-> keys]
DefinitionOther(v) == [t |-> v.t, s |-> v.s, n |-> v.n, b |-> v.b, keys |-> <<>>]
\* one entry of surfaceUpdate.components
ComponentV08(id, definition) ==
  [t |-> "object", s |-> "", n |-> 0, b |-> FALSE, id |-> id, component |-> definition]
PrimComponentV08(v) ==
  [t |-> v.t, s |-> v.s, n |-> v.n, b |-> v.b,
   id |-> Undefined, component |-> DefinitionOther(Undefined)]
\* the value under beginRendering, surfaceUpdate or dataModelUpdate
BodyV08(surfaceId, root, components, contents) ==
  [t |-> "object", s |-> "", n |-> 0, b |-> FALSE,
   surfaceId |-> surfaceId, root |-> root, components |-> components,
   contents |-> contents]
BodyV08Other(v) ==
  [t |-> v.t, s |-> v.s, n |-> v.n, b |-> v.b,
   surfaceId |-> Undefined, root |-> Undefined,
   components |-> ComponentsOther(Undefined), contents |-> Undefined]
NoBodyV08 == BodyV08Other(Undefined)

MessageKeys == {"createSurface", "updateComponents", "updateDataModel", "deleteSurface"}
MessageKeysV08 == {"beginRendering", "surfaceUpdate", "dataModelUpdate"}
\* a top-level object: keys is the set of its own keys; v08 is the value under
\* the v0.8 keys it has
Message(keys, cs, uc, udm, ds) ==
  [t |-> "object", s |-> "", n |-> 0, b |-> FALSE, keys |-> keys,
   createSurface |-> cs, updateComponents |-> uc, updateDataModel |-> udm,
   deleteSurface |-> ds, v08 |-> NoBodyV08]
\* a top-level value that is not an object
MessageOther(v) ==
  [t |-> v.t, s |-> v.s, n |-> v.n, b |-> v.b, keys |-> {},
   createSurface |-> NoBody, updateComponents |-> NoBody, updateDataModel |-> NoBody,
   deleteSurface |-> NoBody, v08 |-> NoBodyV08]
\* a v0.8 message
MessageV08(keys, body) ==
  [Message(keys, NoBody, NoBody, NoBody, NoBody) EXCEPT !.v08 = body]
OneKey(key, body) ==
  Message({key},
          IF key = "createSurface" THEN body ELSE NoBody,
          IF key = "updateComponents" THEN body ELSE NoBody,
          IF key = "updateDataModel" THEN body ELSE NoBody,
          IF key = "deleteSurface" THEN body ELSE NoBody)

\* ValidationOptions
Options(strict, allowed) == [strict |-> strict, allowedComponents |-> allowed]
NoAllowed == [t |-> "undefined", items |-> <<>>]
Allowed(items) == [t |-> "array", items |-> items]

\* key in message: a TypeError when message is not an object
InThrows(message) == message.t \notin {"object", "array"}
In(key, message) == key \in message.keys

\* ------------------------------------------------------------------------
\* validateComponentProperties (part_005): the switch over comp.component
\* ------------------------------------------------------------------------
\* the properties the case of a kind tests against undefined, in code order
SwitchCase(kind) ==
  CASE kind = Str("Text") -> <<"text">>
    [] kind \in {Str("Image"), Str("Video"), Str("AudioPlayer")} -> <<"url">>
    [] kind = Str("Icon") -> <<"name">>
    [] kind \in {Str("Row"), Str("Column"), Str("List")} -> <<"children">>
    [] kind = Str("Card") -> <<"child">>
    [] kind = Str("Tabs") -> <<"tabs">>
    [] kind = Str("Modal") -> <<"trigger", "content">>
    [] kind = Str("Button") -> <<"child", "action">>
    [] kind = Str("CheckBox") -> <<"label", "value">>
    [] kind = Str("TextField") -> <<"label">>
    [] kind = Str("DateTimeInput") -> <<"value">>
    [] kind = Str("ChoicePicker") -> <<"options", "value">>
    [] kind = Str("Slider") -> <<"value", "min", "max">>
    [] OTHER -> <<>>

\* mutant: !comp.<f> in place of comp.<f> === undefined
IsMissingMutant(comp, f) == ~Truthy(Prop(comp, f))
\* comp.<f> === undefined
IsMissing(comp, f) == Prop(comp, f) = Undefined

RECURSIVE MissingOf(_, _)
MissingOf(comp, fields) ==
  IF fields = <<>> THEN <<>>
  ELSE (IF IsMissing(comp, Head(fields)) THEN <<Head(fields)>> ELSE <<>>)
         \o MissingOf(comp, Tail(fields))

MissingRequiredProperty(comp, path, f) ==
  Issue("MISSING_REQUIRED_PROPERTY",
        ToStr(comp.component) \o " component requires \"" \o f \o "\" property",
        Str(path \o "." \o f))

\* the errors the call pushes
validateComponentProperties(comp, path) ==
  LET missing == MissingOf(comp, SwitchCase(comp.component))
  IN [k \in 1..Len(missing) |-> MissingRequiredProperty(comp, path, missing[k])]

\* ------------------------------------------------------------------------
\* validateComponents: part_005 (with property checks) and
\* message-validator.ts (validateComponentsV09 here)
\* ------------------------------------------------------------------------
ComponentPath(i) == "updateComponents.components[" \o ToString(i) \o "]"

\* mutant: the id is added to the set before the set is asked
CheckIdMutant(comp, path, st) ==
  IF ~Truthy(comp.id)
  THEN [st EXCEPT !.errors =
          Append(@, Issue("MISSING_COMPONENT_ID", "Component id is required",
                          Str(path \o ".id")))]
  ELSE [st EXCEPT
          !.errors = Append(@, Issue("DUPLICATE_COMPONENT_ID",
                                     "Duplicate component id: " \o ToStr(comp.id),
                                     Str(path \o ".id"))),
          !.componentIds = @ \cup {comp.id},
          !.hasRoot = @ \/ comp.id = Str("root")]
\* the id block of the loop body; st is [errors, warnings, componentIds, hasRoot]
CheckId(comp, path, st) ==
  IF ~Truthy(comp.id)
  THEN [st EXCEPT !.errors =
          Append(@, Issue("MISSING_COMPONENT_ID", "Component id is required",
                          Str(path \o ".id")))]
  ELSE [st EXCEPT
          !.errors = IF comp.id \in st.componentIds
                     THEN Append(@, Issue("DUPLICATE_COMPONENT_ID",
                                          "Duplicate component id: " \o ToStr(comp.id),
                                          Str(path \o ".id")))
                     ELSE @,
          !.componentIds = @ \cup {comp.id},
          !.hasRoot = @ \/ comp.id = Str("root")]

MissingComponentType(path) ==
  Issue("MISSING_COMPONENT_TYPE", "Component type is required", Str(path \o ".component"))
UnknownComponentType(comp, path) ==
  Issue("UNKNOWN_COMPONENT_TYPE", "Unknown component type: " \o ToStr(comp.component),
        Str(path \o ".component"))

\* mutant: the warning is given without strict and withheld with it
WarnsUnknownMutant(comp, options) ==
  /\ ~Truthy(options.strict)
  /\ ~Includes(STANDARD_COMPONENT_TYPES, comp.component)
  /\ ~(options.allowedComponents.t = "array"
       /\ Includes(options.allowedComponents.items, comp.component))
\* part_005: options.strict && !STANDARD.includes(k) && !options.allowedComponents?.includes(k)
WarnsUnknown(comp, options) ==
  /\ Truthy(options.strict)
  /\ ~Includes(STANDARD_COMPONENT_TYPES, comp.component)
  /\ ~(options.allowedComponents.t = "array"
       /\ Includes(options.allowedComponents.items, comp.component))

\* mutant: the test of options.strict is dropped
WarnsUnknownV09Mutant(comp, options) ==
  /\ ~Includes(STANDARD_COMPONENT_TYPES, comp.component)
  /\ options.allowedComponents.t = "array"
  /\ ~Includes(options.allowedComponents.items, comp.component)
\* message-validator.ts: ... && options.allowedComponents && !allowedComponents.includes(k)
WarnsUnknownV09(comp, options) ==
  /\ Truthy(options.strict)
  /\ ~Includes(STANDARD_COMPONENT_TYPES, comp.component)
  /\ options.allowedComponents.t = "array"
  /\ ~Includes(options.allowedComponents.items, comp.component)

\* mutant: continue after a missing id, the kind is not looked at
CheckTypeMutant(comp, path, options, st) ==
  IF ~Truthy(comp.id) THEN st
  ELSE IF ~Truthy(comp.component)
  THEN [st EXCEPT !.errors = Append(@, MissingComponentType(path))]
  ELSE [st EXCEPT
          !.warnings = IF WarnsUnknown(comp, options)
                       THEN Append(@, UnknownComponentType(comp, path)) ELSE @,
          !.errors = @ \o validateComponentProperties(comp, path)]
\* mutant: the type block is skipped once an error has been pushed
CheckTypeAbortMutant(comp, path, options, st) ==
  IF st.errors # <<>> THEN st
  ELSE IF ~Truthy(comp.component)
  THEN [st EXCEPT !.errors = Append(@, MissingComponentType(path))]
  ELSE [st EXCEPT
          !.warnings = IF WarnsUnknown(comp, options)
                       THEN Append(@, UnknownComponentType(comp, path)) ELSE @,
          !.errors = @ \o validateComponentProperties(comp, path)]
\* the type block of the loop body, part_005
CheckType(comp, path, options, st) ==
  IF ~Truthy(comp.component)
  THEN [st EXCEPT !.errors = Append(@, MissingComponentType(path))]
  ELSE [st EXCEPT
          !.warnings = IF WarnsUnknown(comp, options)
                       THEN Append(@, UnknownComponentType(comp, path)) ELSE @,
          !.errors = @ \o validateComponentProperties(comp, path)]

\* the type block of the loop body, message-validator.ts
CheckTypeV09(comp, path, options, st) ==
  IF ~Truthy(comp.component)
  THEN [st EXCEPT !.errors = Append(@, MissingComponentType(path))]
  ELSE [st EXCEPT
          !.warnings = IF WarnsUnknownV09(comp, options)
                       THEN Append(@, UnknownComponentType(comp, path)) ELSE @]

\* mutant: no continue, an entry that is null or undefined is looked at like any other
RECURSIVE ComponentsLoopMutant(_, _, _, _, _)
ComponentsLoopMutant(v09, components, options, i, st) ==
  IF i >= Len(components) THEN st
  ELSE LET comp == components[i + 1]
           path == ComponentPath(i)
       IN ComponentsLoopMutant(v09, components, options, i + 1,
            IF v09 THEN CheckTypeV09(comp, path, options, CheckId(comp, path, st))
            ELSE CheckType(comp, path, options, CheckId(comp, path, st)))
\* the for loop from index i (0-based) on
RECURSIVE ComponentsLoop(_, _, _, _, _)
ComponentsLoop(v09, components, options, i, st) ==
  IF i >= Len(components) THEN st
  ELSE LET comp == components[i + 1]
           path == ComponentPath(i)
       IN IF ~Truthy(comp)
          THEN ComponentsLoop(v09, components, options, i + 1, st)
          ELSE ComponentsLoop(v09, components, options, i + 1,
                 IF v09 THEN CheckTypeV09(comp, path, options, CheckId(comp, path, st))
                 ELSE CheckType(comp, path, options, CheckId(comp, path, st)))

\* mutant: the root check does not look at strict
RootCheckMutant(options, st) ==
  IF ~st.hasRoot
  THEN [st EXCEPT !.warnings =
          Append(@, Issue("MISSING_ROOT_COMPONENT", "No component with id \"root\" found",
                          Str("updateComponents.components")))]
  ELSE st
\* if (!hasRoot && options.strict)
RootCheck(options, st) ==
  IF ~st.hasRoot /\ Truthy(options.strict)
  THEN [st EXCEPT !.warnings =
          Append(@, Issue("MISSING_ROOT_COMPONENT", "No component with id \"root\" found",
                          Str("updateComponents.components")))]
  ELSE st

LoopStart(errors, warnings) ==
  [errors |-> errors, warnings |-> warnings, componentIds |-> {}, hasRoot |-> FALSE]

validateComponents(components, errors, warnings, options) ==
  RootCheck(options, ComponentsLoop(FALSE, components, options, 0, LoopStart(errors, warnings)))

validateComponentsV09(components, errors, warnings, options) ==
  RootCheck(options, ComponentsLoop(TRUE, components, options, 0, LoopStart(errors, warnings)))

\* ------------------------------------------------------------------------
\* The per-kind blocks of validateMessage / validateV09Message.  Each gives
\* [errors, warnings] for the value found under the message key.
\* ------------------------------------------------------------------------
MissingSurfaceId(key) ==
  Issue("MISSING_SURFACE_ID", key \o ".surfaceId is required", Str(key \o ".surfaceId"))

\* mutant: surfaceId === undefined in place of !surfaceId
SurfaceIdCheckMutant(key, body) ==
  IF Get(body, "surfaceId") = Undefined THEN <<MissingSurfaceId(key)>> ELSE <<>>
\* if (!<body>.surfaceId) errors.push(...)
SurfaceIdCheck(key, body) ==
  IF ~Truthy(Get(body, "surfaceId")) THEN <<MissingSurfaceId(key)>> ELSE <<>>

\* mutant: else-if, the catalogId is only looked at when the surfaceId is there
CatalogIdCheckMutant(body) ==
  IF Truthy(Get(body, "surfaceId")) /\ ~Truthy(Get(body, "catalogId"))
  THEN <<Issue("MISSING_CATALOG_ID", "createSurface.catalogId is required",
               Str("createSurface.catalogId"))>>
  ELSE <<>>
\* if (!createSurface.catalogId) errors.push(...)
CatalogIdCheck(body) ==
  IF ~Truthy(Get(body, "catalogId"))
  THEN <<Issue("MISSING_CATALOG_ID", "createSurface.catalogId is required",
               Str("createSurface.catalogId"))>>
  ELSE <<>>

HexDigits ==
  {"0", "1", "2", "3", "4", "5", "6", "7", "8", "9",
   "a", "b", "c", "d", "e", "f", "A", "B", "C", "D", "E", "F"}
\* /^#[0-9a-fA-F]{6}$/.test(color)
colorPattern(color) ==
  /\ Len(color.chars) = 7
  /\ color.chars[1] = "#"
  /\ \A k \in 2..7 : color.chars[k] \in HexDigits

\* createSurface.theme?.primaryColor
ThemePrimaryColor(body) ==
  LET theme == Get(body, "theme")
  IN IF theme.t # "object" THEN ColorOther(Undefined, <<>>)
     ELSE theme.primaryColor

\* if (createSurface.theme?.primaryColor) { if (!colorPattern.test(...)) warnings.push(...) }
PrimaryColorCheck(body) ==
  LET color == ThemePrimaryColor(body)
  IN IF Truthy(color) /\ ~colorPattern(color)
     THEN <<Issue("INVALID_PRIMARY_COLOR",
                  "primaryColor should be a hex color code (e.g., #00BFFF)",
                  Str("createSurface.theme.primaryColor"))>>
     ELSE <<>>

InvalidComponents ==
  Issue("INVALID_COMPONENTS", "updateComponents.components must be an array",
        Str("updateComponents.components"))

\* body.components as the code sees it
ComponentsOf(body) == IF body.t = "object" THEN body.components ELSE ComponentsOther(Undefined)

\* mutant: no else, the component pass also runs (over nothing) after INVALID_COMPONENTS
UpdateComponentsBlockMutant(v09, body, options) ==
  LET comps == ComponentsOf(body)
      errors == SurfaceIdCheck("updateComponents", body)
                  \o (IF comps.t # "array" THEN <<InvalidComponents>> ELSE <<>>)
      st == IF v09 THEN validateComponentsV09(comps.items, errors, <<>>, options)
            ELSE validateComponents(comps.items, errors, <<>>, options)
  IN [errors |-> st.errors, warnings |-> st.warnings]
\* the updateComponents block; v09 selects the component pass of message-validator.ts
UpdateComponentsBlock(v09, body, options) ==
  LET errors == SurfaceIdCheck("updateComponents", body)
      comps == ComponentsOf(body)
  IN IF ~Truthy(comps) \/ comps.t # "array"
     THEN [errors |-> Append(errors, InvalidComponents), warnings |-> <<>>]
     ELSE LET st == IF v09 THEN validateComponentsV09(comps.items, errors, <<>>, options)
                    ELSE validateComponents(comps.items, errors, <<>>, options)
          IN [errors |-> st.errors, warnings |-> st.warnings]

ValidOps == <<"add", "replace", "remove">>

\* if (updateDataModel.op && ![...].includes(updateDataModel.op))
InvalidOpCheck(body) ==
  LET op == Get(body, "op")
  IN IF Truthy(op) /\ ~Includes(ValidOps, op)
     THEN <<Issue("INVALID_OP", "updateDataModel.op must be one of: add, replace, remove",
                  Str("updateDataModel.op"))>>
     ELSE <<>>

UnnecessaryValue ==
  Issue("UNNECESSARY_VALUE",
        "updateDataModel.value should not be provided for remove operation",
        Str("updateDataModel.value"))
\* mutant: every remove is warned about
UnnecessaryValueCheckMutant(body) ==
  IF Get(body, "op") = Str("remove") THEN <<UnnecessaryValue>> ELSE <<>>
\* if (updateDataModel.op === 'remove' && updateDataModel.value !== undefined)
UnnecessaryValueCheck(body) ==
  IF Get(body, "op") = Str("remove") /\ Get(body, "value") # Undefined
  THEN <<UnnecessaryValue>> ELSE <<>>

MissingValue ==
  Issue("MISSING_VALUE", "updateDataModel.value is required for add operation",
        Str("updateDataModel.value"))
\* mutant: the inner test on 'add' is dropped
MissingValueCheckMutant(body) ==
  IF Get(body, "op") # Str("remove") /\ Get(body, "value") = Undefined
  THEN <<MissingValue>> ELSE <<>>
\* if (op !== 'remove' && value === undefined) { if (op === 'add') ... }
MissingValueCheck(body) ==
  IF Get(body, "op") # Str("remove") /\ Get(body, "value") = Undefined
  THEN (IF Get(body, "op") = Str("add") THEN <<MissingValue>> ELSE <<>>)
  ELSE <<>>

\* the three op / value checks of message-validator.ts
OpChecks(body) ==
  [errors |-> InvalidOpCheck(body) \o MissingValueCheck(body),
   warnings |-> UnnecessaryValueCheck(body)]

\* mutant: the code of the unversioned validator
InvalidMessageTypeMutant ==
  Issue("UNKNOWN_MESSAGE_TYPE", "Unknown message type", Undefined)
InvalidMessageType ==
  Issue("INVALID_MESSAGE_TYPE",
        "Message must contain one of: createSurface, updateComponents, updateDataModel, deleteSurface",
        Undefined)

\* mutant: the chain tests the keys in the opposite order
DispatchMutant(message) ==
  CASE In("deleteSurface", message) -> "deleteSurface"
    [] In("updateDataModel", message) -> "updateDataModel"
    [] In("updateComponents", message) -> "updateComponents"
    [] In("createSurface", message) -> "createSurface"
    [] OTHER -> "none"
\* the key whose block runs: the first present one of the if / else-if chain
Dispatch(message) ==
  CASE In("createSurface", message) -> "createSurface"
    [] In("updateComponents", message) -> "updateComponents"
    [] In("updateDataModel", message) -> "updateDataModel"
    [] In("deleteSurface", message) -> "deleteSurface"
    [] OTHER -> "none"

\* mutant: the errors array is shared by the calls and never emptied
NewErrorsMutant ==
  IF history = <<>> THEN <<>> ELSE history[Len(history)].result.errors
\* const errors: ValidationError[] = []: every call starts a list of its own
NewErrors == <<>>
\* const warnings: ValidationWarning[] = []
NewWarnings == <<>>

\* ------------------------------------------------------------------------
\* validateMessage (part_005, lines 502-580)
\* ------------------------------------------------------------------------
validateMessage(message, options) ==
  IF InThrows(message) THEN Thrown
  ELSE LET key == Dispatch(message)
       IN IF key = "none" THEN ValidationResult(NewErrors \o <<InvalidMessageType>>, NewWarnings)
          ELSE LET body == message[key]
               IN IF ~CanRead(body) THEN Thrown
                  ELSE CASE key = "createSurface" ->
                              ValidationResult(
                                NewErrors \o SurfaceIdCheck(key, body) \o CatalogIdCheck(body),
                                NewWarnings \o PrimaryColorCheck(body))
                         [] key = "updateComponents" ->
                              LET r == UpdateComponentsBlock(FALSE, body, options)
                              IN ValidationResult(NewErrors \o r.errors, NewWarnings \o r.warnings)
                         [] OTHER -> ValidationResult(NewErrors \o SurfaceIdCheck(key, body),
                                                     NewWarnings)

\* ------------------------------------------------------------------------
\* validateV09Message (message-validator.ts, lines 82-182)
\* ------------------------------------------------------------------------
validateV09Message(message, options) ==
  IF InThrows(message) THEN Thrown
  ELSE LET key == Dispatch(message)
       IN IF key = "none" THEN ValidationResult(NewErrors \o <<InvalidMessageType>>, NewWarnings)
          ELSE LET body == message[key]
               IN IF ~CanRead(body) THEN Thrown
                  ELSE CASE key = "createSurface" ->
                              ValidationResult(
                                NewErrors \o SurfaceIdCheck(key, body) \o CatalogIdCheck(body),
                                NewWarnings)
                         [] key = "updateComponents" ->
                              LET r == UpdateComponentsBlock(TRUE, body, options)
                              IN ValidationResult(NewErrors \o r.errors, NewWarnings \o r.warnings)
                         [] key = "updateDataModel" ->
                              LET r == OpChecks(body)
                              IN ValidationResult(
                                   NewErrors \o SurfaceIdCheck(key, body) \o r.errors,
                                   NewWarnings \o r.warnings)
                         [] OTHER -> ValidationResult(NewErrors \o SurfaceIdCheck(key, body),
                                                     NewWarnings)

\* the validator a call goes to
Validate(impl, message, options) ==
  IF impl = "validateV09Message" THEN validateV09Message(message, options)
  ELSE validateMessage(message, options)

\* ------------------------------------------------------------------------
\* validateMessages
\* ------------------------------------------------------------------------
\* mutant: the prefix counts the messages from 1
PrefixedMutant(issue, i) ==
  [issue EXCEPT !.path =
     Str("messages[" \o ToString(i + 1) \o "]."
         \o (IF issue.path \in {Undefined, Null} THEN "" ELSE ToStr(issue.path)))]
\* { ...issue, path: `messages[${i}].${issue.path ?? ''}` }
Prefixed(issue, i) ==
  [issue EXCEPT !.path =
     Str("messages[" \o ToString(i) \o "]."
         \o (IF issue.path \in {Undefined, Null} THEN "" ELSE ToStr(issue.path)))]

PrefixAll(issues, i) == [k \in 1..Len(issues) |-> Prefixed(issues[k], i)]

\* the for loop from index i (0-based) on; acc is [threw, errors, warnings]
RECURSIVE MessagesLoop(_, _, _, _, _)
MessagesLoop(impl, messages, options, i, acc) ==
  IF i >= Len(messages) THEN acc
  ELSE LET message == messages[i + 1]
       IN IF ~Truthy(message) THEN MessagesLoop(impl, messages, options, i + 1, acc)
          ELSE LET result == Validate(impl, message, options)
               IN IF result.threw THEN [acc EXCEPT !.threw = TRUE]
                  ELSE MessagesLoop(impl, messages, options, i + 1,
                         [acc EXCEPT !.errors = @ \o PrefixAll(result.errors, i),
                                     !.warnings = @ \o PrefixAll(result.warnings, i)])

\* mutant: an updateComponents message that no createSurface precedes is an error
validateMessagesMutant(impl, messages, options) ==
  LET acc == MessagesLoop(impl, messages, options, 0,
                          [threw |-> FALSE, errors |-> NewErrors, warnings |-> NewWarnings])
      created(i) == \E j \in 1..(i - 1) : messages[j].t = "object"
                                           /\ Dispatch(messages[j]) = "createSurface"
      extra == IF \E i \in 1..Len(messages) :
                     /\ messages[i].t = "object"
                     /\ Dispatch(messages[i]) = "updateComponents"
                     /\ ~created(i)
               THEN <<Issue("UNKNOWN_SURFACE", "surface was not created", Undefined)>>
               ELSE <<>>
  IN IF acc.threw THEN Thrown ELSE ValidationResult(acc.errors \o extra, acc.warnings)
validateMessages(impl, messages, options) ==
  LET acc == MessagesLoop(impl, messages, options, 0,
                          [threw |-> FALSE, errors |-> NewErrors, warnings |-> NewWarnings])
  IN IF acc.threw THEN Thrown ELSE ValidationResult(acc.errors, acc.warnings)

\* ------------------------------------------------------------------------
\* The version-detecting validator (part_005, lines 1-448): validateMessage
\* looks at the keys and hands the message to validateV09Message or to
\* validateV08Message of the same file.
\* ------------------------------------------------------------------------
\* else if (options.strict && options.allowedComponents) if (!allowedComponents.includes(k))
WarnsUnknownAuto(comp, options) ==
  /\ Truthy(options.strict)
  /\ options.allowedComponents.t = "array"
  /\ ~Includes(options.allowedComponents.items, comp.component)

\* the type block of the loop body of validateComponentsV09, part_005 lines 373-386
CheckTypeAuto(comp, path, options, st) ==
  IF ~Truthy(comp.component)
  THEN [st EXCEPT !.errors = Append(@, MissingComponentType(path))]
  ELSE [st EXCEPT
          !.warnings = IF WarnsUnknownAuto(comp, options)
                       THEN Append(@, UnknownComponentType(comp, path)) ELSE @]

RECURSIVE ComponentsLoopAuto(_, _, _, _)
ComponentsLoopAuto(components, options, i, st) ==
  IF i >= Len(components) THEN st
  ELSE LET comp == components[i + 1]
           path == ComponentPath(i)
       IN IF ~Truthy(comp)
          THEN ComponentsLoopAuto(components, options, i + 1, st)
          ELSE ComponentsLoopAuto(components, options, i + 1,
                 CheckTypeAuto(comp, path, options, CheckId(comp, path, st)))

validateComponentsV09Auto(components, errors, warnings, options) ==
  RootCheck(options, ComponentsLoopAuto(components, options, 0, LoopStart(errors, warnings)))

\* validateV09Message of part_005, lines 88-161
validateV09MessageAuto(message, options) ==
  IF InThrows(message) THEN Thrown
  ELSE LET key == Dispatch(message)
       IN IF key = "none" THEN ValidationResult(NewErrors \o <<InvalidMessageType>>, NewWarnings)
          ELSE LET body == message[key]
               IN IF ~CanRead(body) THEN Thrown
                  ELSE CASE key = "createSurface" ->
                              ValidationResult(
                                NewErrors \o SurfaceIdCheck(key, body) \o CatalogIdCheck(body),
                                NewWarnings)
                         [] key = "updateComponents" ->
                              LET errors == NewErrors \o SurfaceIdCheck(key, body)
                                  comps == ComponentsOf(body)
                              IN IF ~Truthy(comps) \/ comps.t # "array"
                                 THEN ValidationResult(Append(errors, InvalidComponents),
                                                       NewWarnings)
                                 ELSE LET st == validateComponentsV09Auto(
                                                  comps.items, errors, NewWarnings, options)
                                      IN ValidationResult(st.errors, st.warnings)
                         [] OTHER -> ValidationResult(NewErrors \o SurfaceIdCheck(key, body),
                                                     NewWarnings)

ComponentPathV08(i) == "surfaceUpdate.components[" \o ToString(i) \o "]"

\* Object.keys(comp.component)[0]; "" stands for the undefined of an empty object
ComponentTypeV08(comp) == IF comp.component.keys = <<>> THEN "" ELSE comp.component.keys[1]

\* the component block of the loop body of validateComponentsV08
CheckComponentV08(comp, path, options, st) ==
  IF ~Truthy(comp.component) \/ comp.component.t \notin {"object", "array"}
  THEN [st EXCEPT !.errors =
          Append(@, Issue("MISSING_COMPONENT", "Component definition is required",
                          Str(path \o ".component")))]
  ELSE IF /\ ComponentTypeV08(comp) # ""
          /\ Truthy(options.strict)
          /\ ComponentTypeV08(comp) \notin Range(STANDARD_COMPONENT_TYPES)
  THEN [st EXCEPT !.warnings =
          Append(@, Issue("UNKNOWN_COMPONENT_TYPE",
                          "Unknown component type: " \o ComponentTypeV08(comp),
                          Str(path \o ".component")))]
  ELSE st

RECURSIVE ComponentsLoopV08(_, _, _, _)
ComponentsLoopV08(components, options, i, st) ==
  IF i >= Len(components) THEN st
  ELSE LET comp == components[i + 1]
           path == ComponentPathV08(i)
       IN IF ~Truthy(comp)
          THEN ComponentsLoopV08(components, options, i + 1, st)
          ELSE ComponentsLoopV08(components, options, i + 1,
                 CheckComponentV08(comp, path, options, CheckId(comp, path, st)))

\* validateComponentsV08 has no root check
validateComponentsV08(components, errors, warnings, options) ==
  ComponentsLoopV08(components, options, 0, LoopStart(errors, warnings))

InvalidMessageTypeV08 ==
  Issue("INVALID_MESSAGE_TYPE",
        "Message must contain one of: beginRendering, surfaceUpdate, dataModelUpdate, deleteSurface",
        Undefined)

\* the key whose block runs in validateV08Message
DispatchV08(message) ==
  CASE In("beginRendering", message) -> "beginRendering"
    [] In("surfaceUpdate", message) -> "surfaceUpdate"
    [] In("dataModelUpdate", message) -> "dataModelUpdate"
    [] In("deleteSurface", message) -> "deleteSurface"
    [] OTHER -> "none"

\* validateV08Message (part_005, lines 166-245)
validateV08Message(message, options) ==
  IF InThrows(message) THEN Thrown
  ELSE LET key == DispatchV08(message)
       IN IF key = "none"
          THEN ValidationResult(NewErrors \o <<InvalidMessageTypeV08>>, NewWarnings)
          ELSE LET body == IF key = "deleteSurface" THEN message.deleteSurface
                           ELSE message.v08
               IN IF ~CanRead(body) THEN Thrown
                  ELSE CASE key = "beginRendering" ->
                              ValidationResult(
                                NewErrors \o SurfaceIdCheck(key, body)
                                  \o (IF ~Truthy(Get(body, "root"))
                                      THEN <<Issue("MISSING_ROOT",
                                                   "beginRendering.root is required",
                                                   Str("beginRendering.root"))>>
                                      ELSE <<>>),
                                NewWarnings)
                         [] key = "surfaceUpdate" ->
                              LET errors == NewErrors \o SurfaceIdCheck(key, body)
                                  comps == IF body.t = "object" THEN body.components
                                           ELSE ComponentsOther(Undefined)
                              IN IF ~Truthy(comps) \/ comps.t # "array"
                                 THEN ValidationResult(
                                        Append(errors,
                                               Issue("INVALID_COMPONENTS",
                                                     "surfaceUpdate.components must be an array",
                                                     Str("surfaceUpdate.components"))),
                                        NewWarnings)
                                 ELSE LET st == validateComponentsV08(
                                                  comps.items, errors, NewWarnings, options)
                                      IN ValidationResult(st.errors, st.warnings)
                         [] key = "dataModelUpdate" ->
                              ValidationResult(
                                NewErrors \o SurfaceIdCheck(key, body)
                                  \o (IF ~Truthy(Get(body, "contents"))
                                         \/ Get(body, "contents").t # "array"
                                      THEN <<Issue("INVALID_CONTENTS",
                                                   "dataModelUpdate.contents must be an array",
                                                   Str("dataModelUpdate.contents"))>>
                                      ELSE <<>>),
                                NewWarnings)
                         [] OTHER -> ValidationResult(NewErrors \o SurfaceIdCheck(key, body),
                                                     NewWarnings)

UnknownMessageType == Issue("UNKNOWN_MESSAGE_TYPE", "Unknown message type", Undefined)

\* validateMessage of part_005, lines 250-291: the version is detected from the keys
validateMessageAuto(message, options) ==
  IF InThrows(message) THEN Thrown
  ELSE IF \/ In("createSurface", message)
          \/ In("updateComponents", message)
          \/ In("updateDataModel", message)
  THEN validateV09MessageAuto(message, options)
  ELSE IF \/ In("beginRendering", message)
          \/ In("surfaceUpdate", message)
          \/ In("dataModelUpdate", message)
  THEN validateV08Message(message, options)
  ELSE IF In("deleteSurface", message)
  THEN IF ~CanRead(message.deleteSurface) THEN Thrown
       ELSE IF ~Truthy(Get(message.deleteSurface, "surfaceId"))
       THEN [threw |-> FALSE, valid |-> FALSE,
             errors |-> <<MissingSurfaceId("deleteSurface")>>, warnings |-> <<>>]
       ELSE [threw |-> FALSE, valid |-> TRUE, errors |-> <<>>, warnings |-> <<>>]
  ELSE [threw |-> FALSE, valid |-> FALSE, errors |-> <<UnknownMessageType>>,
        warnings |-> <<>>]

\* ------------------------------------------------------------------------
\* The inputs the validators are called with
\* ------------------------------------------------------------------------
SeqsUpTo(S, n) == UNION {[1..k -> S] : k \in 0..n}

SurfaceIds == {Undefined, Str(""), Str("s1")}
CatalogIds == {Undefined, Str(""), Str("c1")}

Colors ==
  {ColorOther(Undefined, <<>>), ColorOther(Null, <<"n", "u", "l", "l">>),
   ColorOther(Num(5), <<"5">>),
   ColorStr(<<>>),
   ColorStr(<<"#", "0", "0", "B", "F", "F", "F">>),
   ColorStr(<<"#", "a", "9", "c", "d", "e", "f">>),
   ColorStr(<<"#", "0", "0", "B", "F", "F">>),
   ColorStr(<<"#", "0", "0", "B", "F", "F", "F", "0">>),
   ColorStr(<<"#", "0", "0", "B", "G", "F", "F">>),
   ColorStr(<<"0", "0", "0", "B", "F", "F", "F">>),
   ColorStr(<<"i", "n", "v", "a", "l", "i", "d">>)}
Themes == {ThemeOther(Undefined), ThemeOther(Null), ThemeOther(Str("dark"))}
            \cup {Theme(c) : c \in Colors}

NoComponents == ComponentsOther(Undefined)
\* a body that is not an object
OtherBodies == {BodyOther(Null), BodyOther(Str("x"))}

CreateSurfaceBodies ==
  {Body(sid, cid, th, NoComponents, Undefined, Undefined) :
     sid \in SurfaceIds, cid \in CatalogIds, th \in Themes}

DeleteSurfaceBodies ==
  {Body(sid, cid, ThemeOther(Undefined), NoComponents, Undefined, Undefined) :
     sid \in SurfaceIds, cid \in {Undefined, Str("c1")}}

Ops == {Undefined, Str(""), Str("add"), Str("replace"), Str("remove"), Str("invalid")}
Values == {Undefined, Null, Str("unused"), Obj("{user:'John'}")}
UpdateDataModelBodies ==
  {Body(sid, Undefined, ThemeOther(Undefined), NoComponents, op, v) :
     sid \in SurfaceIds, op \in Ops, v \in Values}

\* component property maps: the properties in D hold v, the others are absent
PropsWith(D, v) == [f \in PropNames |-> IF f \in D THEN v ELSE Undefined]
FalsyValues == {Null, Num(0), Str(""), Bool(FALSE)}
PropMaps ==
  {PropsWith(D, v) : D \in {X \in SUBSET PropNames : Cardinality(X) <= MaxProps},
                     v \in {Null, Str("x")}}
    \cup {PropsWith({f}, v) : f \in PropNames, v \in FalsyValues}

CustomKinds == {"CustomWidget"}
Kinds == {Undefined, Str("")} \cup {Str(k) : k \in Range(STANDARD_COMPONENT_TYPES) \cup CustomKinds}

\* the values given as the action of a Button: the wrapper shape of
\* types/components.ts, the bare shape of types/messages.ts, and no Action
BareAction == Obj("{name, context}")
EventAction == Obj("{event: {name, context}}")
ActionShapes == {BareAction, EventAction, Obj("{}"), Str("submit"), Null}
ActionButtons ==
  {Component(Str("btn1"), Str("Button"),
             [[f \in PropNames |-> Undefined] EXCEPT !["child"] = Str("label1"),
                                                     !["action"] = a]) : a \in ActionShapes}

\* one component with every kind and property map
RichComponents == {Component(Str("c"), k, p) : k \in Kinds, p \in PropMaps}
\* one entry with every id and kind, and entries that are not objects
PlainComponents ==
  {Component(id, k, NoProps) : id \in {Undefined, Str(""), Str("c"), Str("root")}, k \in Kinds}
    \cup {PrimComponent(Null), PrimComponent(Str("junk")), PrimComponent(Num(0))}
\* the entries of the longer arrays
ArrayComponents ==
  {Component(id, Str("Text"), PropsWith({"text"}, Str("Hello"))) :
      id \in {Str(""), Str("a"), Str("root")}}
    \cup {Component(id, Str("Button"), NoProps) : id \in {Str("a"), Str("root")}}
    \cup {Component(Str("a"), Str(""), NoProps), PrimComponent(Null),
          PrimComponent(Undefined)}

AllOptions ==
  {Options(st, al) : st \in {Undefined, Bool(FALSE), Bool(TRUE)},
                     al \in {NoAllowed, Allowed(<<>>), Allowed(<<"CustomWidget">>)}}
FewOptions == {Options(Undefined, NoAllowed), Options(Bool(TRUE), NoAllowed)}

UpdateComponentsBody(sid, comps) ==
  Body(sid, Undefined, ThemeOther(Undefined), comps, Undefined, Undefined)

NotArrays ==
  {ComponentsOther(Undefined), ComponentsOther(Null), ComponentsOther(Str("invalid")),
   ComponentsOther(Obj("{}")), ComponentsOther(Num(0))}

\* a well-formed body for each key, and a body with every field missing
GoodBody(key) ==
  CASE key = "createSurface" ->
         Body(Str("s1"), Str("c1"), ThemeOther(Undefined), NoComponents, Undefined, Undefined)
    [] key = "updateComponents" -> UpdateComponentsBody(Str("s1"), ComponentsArray(<<>>))
    [] OTHER -> Body(Str("s1"), Undefined, ThemeOther(Undefined), NoComponents,
                     Undefined, Undefined)
BadBody == Body(Undefined, Undefined, Theme(ColorStr(<<"r", "e", "d">>)),
                ComponentsOther(Str("invalid")), Str("invalid"), Undefined)

\* objects with two recognized keys
TwoKeys(k1, k2) ==
  {[[Message({k1, k2}, NoBody, NoBody, NoBody, NoBody) EXCEPT ![k1] = b1] EXCEPT ![k2] = b2] :
     b1 \in {GoodBody(k1), BadBody}, b2 \in {GoodBody(k2), BadBody}}
TwoKeyMessages ==
  UNION {TwoKeys(p[1], p[2]) : p \in {q \in MessageKeys \X MessageKeys : q[1] # q[2]}}

\* v0.8 messages
ComponentsV08 ==
  {ComponentV08(Str("a"), Definition(<<"Text">>)),
   ComponentV08(Str("a"), Definition(<<"CustomWidget">>)),
   ComponentV08(Str("b"), Definition(<<>>)),
   ComponentV08(Undefined, DefinitionOther(Str("Text"))),
   PrimComponentV08(Null)}
MessagesV08 ==
  {MessageV08({"beginRendering"}, BodyV08(sid, root, ComponentsOther(Undefined), Undefined)) :
     sid \in {Undefined, Str("s1")}, root \in {Undefined, Str("root")}}
  \cup {MessageV08({"surfaceUpdate"}, BodyV08(Str("s1"), Undefined, c, Undefined)) :
          c \in {ComponentsOther(Undefined), ComponentsOther(Str("invalid"))}}
  \cup {MessageV08({"surfaceUpdate"},
                   BodyV08(Str("s1"), Undefined, ComponentsArray(items), Undefined)) :
          items \in SeqsUpTo(ComponentsV08, 2)}
  \cup {MessageV08({"dataModelUpdate"},
                   BodyV08(Str("s1"), Undefined, ComponentsOther(Undefined), c)) :
          c \in {Undefined, Arr("[]"), Str("invalid")}}
  \cup {MessageV08({k}, BodyV08Other(Null)) : k \in MessageKeysV08}

\* pairs <<message, options>> a single-message call is made with
SingleInputs ==
  MessagesV08 \X FewOptions \cup
  ({MessageOther(v) : v \in {Null, Str("hello"), Str(""), Num(0), Num(5),
                              Bool(TRUE), Bool(FALSE)}}
     \cup {MessageOther(Arr("[]")), Message({}, NoBody, NoBody, NoBody, NoBody),
           Message({"unknownType"}, NoBody, NoBody, NoBody, NoBody),
           Message({"unknownType", "surfaceId"}, NoBody, NoBody, NoBody, NoBody)}
     \cup {OneKey(k, b) : k \in MessageKeys, b \in OtherBodies}
     \cup {OneKey("createSurface", b) : b \in CreateSurfaceBodies}
     \cup {OneKey("deleteSurface", b) : b \in DeleteSurfaceBodies}
     \cup {OneKey("updateDataModel", b) : b \in UpdateDataModelBodies}
     \cup {OneKey("updateComponents", UpdateComponentsBody(sid, c)) :
             sid \in SurfaceIds, c \in NotArrays}
     \cup {OneKey("updateComponents",
                  UpdateComponentsBody(sid, ComponentsArray(items))) :
             sid \in {Str(""), Str("s1")}, items \in SeqsUpTo(ArrayComponents, MaxComponents)}
     \cup TwoKeyMessages) \X FewOptions
  \cup {OneKey("updateComponents", UpdateComponentsBody(Str("s1"), ComponentsArray(<<c>>))) :
          c \in PlainComponents} \X AllOptions
  \cup {OneKey("updateComponents", UpdateComponentsBody(Str("s1"), ComponentsArray(<<c>>))) :
          c \in RichComponents} \X {Options(Undefined, NoAllowed)}
  \cup {OneKey("updateComponents", UpdateComponentsBody(Str("s1"), ComponentsArray(<<c>>))) :
          c \in ActionButtons} \X {Options(Undefined, NoAllowed)}

\* the entries of the batches
BatchMessages ==
  {MessageOther(Null), MessageOther(Undefined),
   OneKey("createSurface", GoodBody("createSurface")),
   OneKey("createSurface", BadBody),
   OneKey("updateComponents", UpdateComponentsBody(Str(""), ComponentsArray(<<>>))),
   OneKey("updateComponents",
          UpdateComponentsBody(Str("s1"),
            ComponentsArray(<<Component(Str("x"), Str("Text"), PropsWith({"text"}, Str("Hello"))),
                              Component(Str("x"), Str("Button"), NoProps)>>))),
   OneKey("updateDataModel",
          Body(Str("s"), Undefined, ThemeOther(Undefined), NoComponents, Str("remove"),
               Str("unused"))),
   OneKey("updateComponents",
          UpdateComponentsBody(Str("s2"),
            ComponentsArray(<<Component(Str("x"), Str("Text"),
                                        PropsWith({"text"}, Str("Hello")))>>))),
   OneKey("deleteSurface", GoodBody("deleteSurface")),
   Message({"unknownType"}, NoBody, NoBody, NoBody, NoBody),
   MessageOther(Str("hello"))}
BatchInputs == SeqsUpTo(BatchMessages, MaxMessages) \X FewOptions

NoMessage == MessageOther(Undefined)
NoResult == [threw |-> FALSE, valid |-> FALSE, errors |-> <<>>, warnings |-> <<>>]

\* ------------------------------------------------------------------------
\* utils/index.ts: isPathBinding, getLiteralValue, getPathValue
\* ------------------------------------------------------------------------
\* a value given to the three functions: a JavaScript value with the keys
\* it has and what it holds under the key path
UtilValue(v, keys, held) ==
  [t |-> v.t, s |-> v.s, n |-> v.n, b |-> v.b, keys |-> keys, path |-> held]
Plain(v) == UtilValue(v, {}, Undefined)
\* typeof value
TypeOf(value) == IF value.t \in {"null", "array"} THEN "object" ELSE value.t
\* 'path' in value: a TypeError unless value is an object
InPath(value) ==
  IF value.t \in {"object", "array"}
  THEN [threw |-> FALSE, b |-> "path" \in value.keys]
  ELSE [threw |-> TRUE, b |-> FALSE]
\* typeof value === 'object' && value !== null && 'path' in value
isPathBinding(value) ==
  IF TypeOf(value) = "object" /\ value.t # "null"
  THEN InPath(value)
  ELSE [threw |-> FALSE, b |-> FALSE]
\* what a call of one of the three gives: threw, or the boolean b of
\* isPathBinding, or the value v of an extractor
Outcome(threw, b, v) == [threw |-> threw, b |-> b, v |-> v]
NoOutcome == Outcome(FALSE, FALSE, Plain(Undefined))
getLiteralValue(value) ==
  LET test == isPathBinding(value)
  IN IF test.threw THEN Outcome(TRUE, FALSE, Plain(Undefined))
     ELSE IF test.b THEN Outcome(FALSE, FALSE, Plain(Undefined))
     ELSE Outcome(FALSE, FALSE, value)
getPathValue(value) ==
  LET test == isPathBinding(value)
  IN IF test.threw THEN Outcome(TRUE, FALSE, Plain(Undefined))
     ELSE IF test.b THEN Outcome(FALSE, FALSE, Plain(value.path))
     ELSE Outcome(FALSE, FALSE, Plain(Undefined))

\* the values the three functions are called with
UtilScalars ==
  {Str(x) : x \in {"", "hello", "path", "/user/name"}}
    \cup {Num(k) : k \in {0, 1, 42}} \cup {Bool(TRUE), Bool(FALSE), Null, Undefined}
HeldValues == {Str("/user/name"), Str(""), Num(5), Undefined}
UtilInputs ==
  {Plain(v) : v \in UtilScalars}
    \cup {UtilValue(Obj("{}"), {}, Undefined), UtilValue(Obj("{}"), {"other"}, Undefined)}
    \cup {UtilValue(Obj("{}"), keys, held) :
            keys \in {{"path"}, {"path", "other"}}, held \in HeldValues}
    \cup {UtilValue(Arr("[]"), {}, Undefined), UtilValue(Arr("[]"), {"0", "1"}, Undefined)}
    \cup {UtilValue(Arr("[]"), {"0", "path"}, held) : held \in HeldValues}

\* ------------------------------------------------------------------------
\* The state machine: one call of a validator on an input
\* ------------------------------------------------------------------------
VARIABLES
  message,   \* the argument of a single-message call
  messages,  \* the argument of a batch call
  isBatch,   \* which of the two the input is
  options,   \* the ValidationOptions argument
  called,    \* the function that was called, "none" before the call
  result     \* what the call returned (threw: it raised instead)
\* a call of one of the functions of utils/index.ts
VARIABLES
  arg,       \* the value it is called with
  util,      \* the function that was called, "none" before the call
  out        \* what it gave

\* builders/id-generator.ts and the program that calls it
VARIABLES
  componentIdCounter,  \* let componentIdCounter
  clock,               \* what Date.now() gives
  generated            \* the generateId calls so far, each with its prefix and its id

\* validators/schema-validator.ts and the program that calls it
VARIABLES
  defaultValidator,  \* let defaultValidator: the instance it holds, 0 for null
  instances,         \* the A2UISchemaValidator objects constructed so far (numbered from 1)
  constructions,     \* how many of them getSchemaValidator constructed
  schemaLog          \* the calls so far, each with its function and the instance it used

validatorVars == <<message, messages, isBatch, options, called, result, history>>
utilVars == <<arg, util, out>>
idVars == <<componentIdCounter, clock, generated>>
schemaVars == <<defaultValidator, instances, constructions, schemaLog>>
otherVars == <<utilVars, idVars, schemaVars>>
vars == <<validatorVars, otherVars>>

\* nothing of utils/index.ts is called
UtilsIdle == arg = Plain(Undefined) /\ util = "none" /\ out = NoOutcome
\* let componentIdCounter = 0, and no id has been asked for
IdsIdle == componentIdCounter = 0 /\ clock = 0 /\ generated = <<>>
\* let defaultValidator = null, and nothing of schema-validator.ts is called
SchemaIdle ==
  defaultValidator = 0 /\ instances = 0 /\ constructions = 0 /\ schemaLog = <<>>
OthersIdle == UtilsIdle /\ IdsIdle /\ SchemaIdle

\* the entry a call leaves in the history
CallOf(fn, res) ==
  [fn |-> fn, message |-> message, messages |-> messages, options |-> options,
   result |-> res]

Init ==
  /\ called = "none"
  /\ result = NoResult
  /\ history = <<>>
  /\ OthersIdle
  /\ \/ /\ isBatch = FALSE
        /\ messages = <<>>
        /\ \E in \in SingleInputs : message = in[1] /\ options = in[2]
     \/ /\ isBatch = TRUE
        /\ message = NoMessage
        /\ \E in \in BatchInputs : messages = in[1] /\ options = in[2]

\* validateMessage of part_005
CallValidateMessage ==
  /\ called = "none" /\ ~isBatch /\ Len(history) < MaxCalls
  /\ result' = validateMessage(message, options)
  /\ called' = "validateMessage"
  /\ history' = Append(history, CallOf("validateMessage", result'))
  /\ UNCHANGED <<message, messages, isBatch, options>>
  /\ UNCHANGED otherVars

\* validateV09Message (and the validateMessage wrapper) of message-validator.ts
CallValidateV09Message ==
  /\ called = "none" /\ ~isBatch /\ Len(history) < MaxCalls
  /\ result' = validateV09Message(message, options)
  /\ called' = "validateV09Message"
  /\ history' = Append(history, CallOf("validateV09Message", result'))
  /\ UNCHANGED <<message, messages, isBatch, options>>
  /\ UNCHANGED otherVars

\* the version-detecting validateMessage of part_005, lines 250-291
CallValidateMessageAuto ==
  /\ called = "none" /\ ~isBatch /\ Len(history) < MaxCalls
  /\ result' = validateMessageAuto(message, options)
  /\ called' = "validateMessageAuto"
  /\ history' = Append(history, CallOf("validateMessageAuto", result'))
  /\ UNCHANGED <<message, messages, isBatch, options>>
  /\ UNCHANGED otherVars

\* validateMessages of part_005
CallValidateMessages ==
  /\ called = "none" /\ isBatch /\ Len(history) < MaxCalls
  /\ result' = validateMessages("validateMessage", messages, options)
  /\ called' = "validateMessages"
  /\ history' = Append(history, CallOf("validateMessages", result'))
  /\ UNCHANGED <<message, messages, isBatch, options>>
  /\ UNCHANGED otherVars

\* validateMessages of message-validator.ts
CallValidateMessagesV09 ==
  /\ called = "none" /\ isBatch /\ Len(history) < MaxCalls
  /\ result' = validateMessages("validateV09Message", messages, options)
  /\ called' = "validateMessagesV09"
  /\ history' = Append(history, CallOf("validateMessagesV09", result'))
  /\ UNCHANGED <<message, messages, isBatch, options>>
  /\ UNCHANGED otherVars

Next ==
  \/ CallValidateMessage
  \/ CallValidateV09Message
  \/ CallValidateMessageAuto
  \/ CallValidateMessages
  \/ CallValidateMessagesV09

Spec == Init /\ [][Next]_vars

\* ------------------------------------------------------------------------
\* A caller that validates one input after the other
\* ------------------------------------------------------------------------
RepeatedComponents ==
  OneKey("updateComponents",
         UpdateComponentsBody(Str(""),
           ComponentsArray(<<Component(Str("x"), Str("Text"), PropsWith({"text"}, Str("Hello"))),
                             Component(Str("x"), Str("Button"), NoProps)>>)))
SeqSingleInputs ==
  {<<OneKey("createSurface", BadBody), Options(Undefined, NoAllowed)>>,
   <<RepeatedComponents, Options(Undefined, NoAllowed)>>,
   <<RepeatedComponents, Options(Bool(TRUE), NoAllowed)>>,
   <<OneKey("updateDataModel",
            Body(Str("s"), Undefined, ThemeOther(Undefined), NoComponents, Str("remove"),
                 Str("unused"))), Options(Undefined, NoAllowed)>>,
   <<MessageOther(Str("hello")), Options(Undefined, NoAllowed)>>}
SeqBatchInputs ==
  {<<<<OneKey("createSurface", BadBody),
       Message({"unknownType"}, NoBody, NoBody, NoBody, NoBody)>>,
     Options(Undefined, NoAllowed)>>,
   <<<<MessageOther(Null), RepeatedComponents>>, Options(Bool(TRUE), NoAllowed)>>}

InitSeq ==
  /\ called = "none"
  /\ result = NoResult
  /\ history = <<>>
  /\ OthersIdle
  /\ \/ /\ isBatch = FALSE
        /\ messages = <<>>
        /\ \E in \in SeqSingleInputs : message = in[1] /\ options = in[2]
     \/ /\ isBatch = TRUE
        /\ message = NoMessage
        /\ \E in \in SeqBatchInputs : messages = in[1] /\ options = in[2]

\* the caller turns to its next input; the last result stays where it is
NewInput ==
  /\ called # "none" /\ Len(history) < MaxCalls
  /\ called' = "none"
  /\ \/ /\ isBatch' = FALSE
        /\ messages' = <<>>
        /\ \E in \in SeqSingleInputs : message' = in[1] /\ options' = in[2]
     \/ /\ isBatch' = TRUE
        /\ message' = NoMessage
        /\ \E in \in SeqBatchInputs : messages' = in[1] /\ options' = in[2]
  /\ UNCHANGED <<result, history>>
  /\ UNCHANGED otherVars

NextSeq ==
  \/ CallValidateMessage
  \/ CallValidateV09Message
  \/ CallValidateMessages
  \/ CallValidateMessagesV09
  \/ NewInput

SpecSeq == InitSeq /\ [][NextSeq]_vars

\* no validator is called
ValidatorIdle ==
  /\ called = "none" /\ result = NoResult /\ history = <<>>
  /\ isBatch = FALSE /\ messages = <<>> /\ message = NoMessage
  /\ options = Options(Undefined, NoAllowed)

\* ------------------------------------------------------------------------
\* One call of isPathBinding, getLiteralValue or getPathValue on a value
\* ------------------------------------------------------------------------
InitUtils ==
  /\ ValidatorIdle /\ IdsIdle /\ SchemaIdle
  /\ arg \in UtilInputs /\ util = "none" /\ out = NoOutcome

CallIsPathBinding ==
  /\ util = "none"
  /\ util' = "isPathBinding"
  /\ out' = Outcome(isPathBinding(arg).threw, isPathBinding(arg).b, Plain(Undefined))
  /\ UNCHANGED <<arg, validatorVars, idVars, schemaVars>>

CallGetLiteralValue ==
  /\ util = "none"
  /\ util' = "getLiteralValue"
  /\ out' = getLiteralValue(arg)
  /\ UNCHANGED <<arg, validatorVars, idVars, schemaVars>>

CallGetPathValue ==
  /\ util = "none"
  /\ util' = "getPathValue"
  /\ out' = getPathValue(arg)
  /\ UNCHANGED <<arg, validatorVars, idVars, schemaVars>>

NextUtils ==
  \/ CallIsPathBinding
  \/ CallGetLiteralValue
  \/ CallGetPathValue

SpecUtils == InitUtils /\ [][NextUtils]_vars

\* ------------------------------------------------------------------------
\* Properties
\* ------------------------------------------------------------------------
SingleCalls == {"validateMessage", "validateV09Message"}
\* a single-message call that returned a result
Returned == called \in SingleCalls /\ ~result.threw

HasIssue(list, code, path) ==
  \E k \in DOMAIN list : list[k].code = code /\ list[k].path = Str(path)
CountIssue(list, code, path) ==
  Cardinality({k \in DOMAIN list : list[k].code = code /\ list[k].path = Str(path)})
CountCode(list, code) == Cardinality({k \in DOMAIN list : list[k].code = code})

\* the value under the key the call dispatched on
DispatchedBody == message[Dispatch(message)]
\* the entries of updateComponents.components
Items == ComponentsOf(message.updateComponents).items
ComponentsCall ==
  /\ Returned
  /\ Dispatch(message) = "updateComponents"
  /\ ComponentsOf(message.updateComponents).t = "array"

\* C1: whatever was called, the returned result has valid = TRUE exactly when
\* its errors list is empty; warnings play no part.
C1_ValidIffNoErrors ==
  (called # "none" /\ ~result.threw) => (result.valid <=> Len(result.errors) = 0)

\* a valid result that carries a warning
C1_Witness ==
  /\ called # "none" /\ ~result.threw
  /\ result.valid /\ Len(result.warnings) > 0 /\ Len(result.errors) = 0

\* C2: validateMessage never throws: it returns a result for every JSON
\* value, with INVALID_MESSAGE_TYPE when the top-level value is not an object.
C2_NeverThrows ==
  called \in SingleCalls =>
    /\ ~result.threw
    /\ message.t \notin {"object", "array"} =>
         \E k \in DOMAIN result.errors : result.errors[k].code = "INVALID_MESSAGE_TYPE"

C4_SurfaceId ==
  (Returned /\ Dispatch(message) # "none") =>
    LET key == Dispatch(message)
        missing == ~Truthy(Get(DispatchedBody, "surfaceId"))
    IN /\ CountIssue(result.errors, "MISSING_SURFACE_ID", key \o ".surfaceId")
            = (IF missing THEN 1 ELSE 0)
       /\ CountCode(result.errors, "MISSING_SURFACE_ID") = (IF missing THEN 1 ELSE 0)
       /\ key = "deleteSurface" =>
            /\ result.warnings = <<>>
            /\ Len(result.errors) = (IF missing THEN 1 ELSE 0)

\* a deleteSurface with an empty surfaceId and another field set
C4_Witness ==
  /\ Returned /\ Dispatch(message) = "deleteSurface"
  /\ message.deleteSurface.surfaceId = Str("")
  /\ message.deleteSurface.catalogId = Str("c1")
  /\ HasIssue(result.errors, "MISSING_SURFACE_ID", "deleteSurface.surfaceId")

\* C5: a createSurface with a falsy catalogId gets MISSING_CATALOG_ID at
\* createSurface.catalogId, whether or not its surfaceId is missing too: when
\* both are missing both errors are reported.
C5_CatalogId ==
  (Returned /\ Dispatch(message) = "createSurface") =>
    LET body == message.createSurface
    IN /\ ~Truthy(Get(body, "catalogId")) =>
            HasIssue(result.errors, "MISSING_CATALOG_ID", "createSurface.catalogId")
       /\ (~Truthy(Get(body, "catalogId")) /\ ~Truthy(Get(body, "surfaceId"))) =>
            /\ HasIssue(result.errors, "MISSING_SURFACE_ID", "createSurface.surfaceId")
            /\ HasIssue(result.errors, "MISSING_CATALOG_ID", "createSurface.catalogId")

C5_Witness ==
  /\ Returned /\ Dispatch(message) = "createSurface"
  /\ message.createSurface.t = "object"
  /\ message.createSurface.surfaceId = Undefined
  /\ message.createSurface.catalogId = Undefined
  /\ Len(result.errors) = 2
  /\ HasIssue(result.errors, "MISSING_SURFACE_ID", "createSurface.surfaceId")
  /\ HasIssue(result.errors, "MISSING_CATALOG_ID", "createSurface.catalogId")

\* C6: validateMessage warns INVALID_PRIMARY_COLOR, without an error,
\* whenever theme.primaryColor is present and does not match
\* ^#[0-9a-fA-F]{6}$, and does not warn when it matches.
C6_PrimaryColor ==
  (called = "validateMessage" /\ ~result.threw /\ Dispatch(message) = "createSurface"
     /\ message.createSurface.t = "object" /\ message.createSurface.theme.t = "object") =>
    LET color == message.createSurface.theme.primaryColor
        warned == HasIssue(result.warnings, "INVALID_PRIMARY_COLOR",
                           "createSurface.theme.primaryColor")
    IN /\ CountCode(result.errors, "INVALID_PRIMARY_COLOR") = 0
       /\ (color.t \notin {"undefined", "null"} /\ ~colorPattern(color)) => warned
       /\ colorPattern(color) => ~warned

\* C7: when updateComponents.components is missing or not an array the
\* result has INVALID_COMPONENTS at updateComponents.components next to the
\* surfaceId check and nothing from the component pass (no warning at all);
\* when it is an array, also an empty one, INVALID_COMPONENTS is not reported.
C7_InvalidComponents ==
  (Returned /\ Dispatch(message) = "updateComponents") =>
    LET body == message.updateComponents
    IN IF ComponentsOf(body).t # "array"
       THEN /\ CountIssue(result.errors, "INVALID_COMPONENTS", "updateComponents.components") = 1
            /\ result.warnings = <<>>
            /\ \A k \in DOMAIN result.errors :
                 result.errors[k].code \in {"MISSING_SURFACE_ID", "INVALID_COMPONENTS"}
            /\ HasIssue(result.errors, "MISSING_SURFACE_ID", "updateComponents.surfaceId")
                 <=> ~Truthy(Get(body, "surfaceId"))
       ELSE CountCode(result.errors, "INVALID_COMPONENTS") = 0

\* strict mode, components is a string, the surfaceId is missing as well
C7_Witness ==
  /\ Returned /\ Dispatch(message) = "updateComponents"
  /\ options.strict = Bool(TRUE)
  /\ message.updateComponents.t = "object"
  /\ message.updateComponents.components.t = "string"
  /\ Len(result.errors) = 2
  /\ HasIssue(result.errors, "INVALID_COMPONENTS", "updateComponents.components")
  /\ HasIssue(result.errors, "MISSING_SURFACE_ID", "updateComponents.surfaceId")

\* entry i (1-based) is a component with a non-empty id
HasId(i) == Truthy(Items[i]) /\ Truthy(Items[i].id)
\* entry i repeats the id of an earlier entry
LaterOccurrence(i) == HasId(i) /\ \E j \in 1..(i - 1) : HasId(j) /\ Items[j].id = Items[i].id

\* C8: DUPLICATE_COMPONENT_ID is reported once at components[i].id for each
\* entry whose non-empty id occurred at a smaller index, and nowhere else:
\* an id used k times gets k-1 errors, at its 2nd to k-th occurrence.
C8_DuplicateIds ==
  ComponentsCall =>
    /\ \A i \in 1..Len(Items) :
         CountIssue(result.errors, "DUPLICATE_COMPONENT_ID", ComponentPath(i - 1) \o ".id")
           = (IF LaterOccurrence(i) THEN 1 ELSE 0)
    /\ CountCode(result.errors, "DUPLICATE_COMPONENT_ID")
         = Cardinality({i \in 1..Len(Items) : LaterOccurrence(i)})

\* one id used three times: errors at the 2nd and 3rd occurrence
C8_Witness ==
  /\ ComponentsCall /\ Len(Items) = 3
  /\ \A i \in 1..3 : HasId(i) /\ Items[i].id = Str("a")
  /\ CountCode(result.errors, "DUPLICATE_COMPONENT_ID") = 2
  /\ HasIssue(result.errors, "DUPLICATE_COMPONENT_ID", "updateComponents.components[1].id")
  /\ HasIssue(result.errors, "DUPLICATE_COMPONENT_ID", "updateComponents.components[2].id")

\* C9: for every component of the array, MISSING_COMPONENT_ID is reported
\* at components[i].id exactly when its id is missing or empty and
\* MISSING_COMPONENT_TYPE at components[i].component exactly when its kind is
\* missing or empty, each independently of the other.
C9_MissingIdAndType ==
  ComponentsCall =>
    \A i \in 1..Len(Items) :
      Truthy(Items[i]) =>
        /\ CountIssue(result.errors, "MISSING_COMPONENT_ID", ComponentPath(i - 1) \o ".id")
             = (IF Truthy(Items[i].id) THEN 0 ELSE 1)
        /\ CountIssue(result.errors, "MISSING_COMPONENT_TYPE",
                      ComponentPath(i - 1) \o ".component")
             = (IF Truthy(Items[i].component) THEN 0 ELSE 1)

\* a component with neither id nor kind gets both errors
C9_Witness ==
  /\ ComponentsCall /\ Len(Items) = 1
  /\ Items[1].t = "object" /\ Items[1].id = Undefined /\ Items[1].component = Str("")
  /\ HasIssue(result.errors, "MISSING_COMPONENT_ID", "updateComponents.components[0].id")
  /\ HasIssue(result.errors, "MISSING_COMPONENT_TYPE",
              "updateComponents.components[0].component")

\* the required-field table of the specification
RequiredFields(kind) ==
  CASE kind = "Text" -> {"text"}
    [] kind \in {"Image", "Video", "AudioPlayer"} -> {"url"}
    [] kind = "Icon" -> {"name"}
    [] kind \in {"Row", "Column", "List"} -> {"children"}
    [] kind = "Card" -> {"child"}
    [] kind = "Tabs" -> {"tabs"}
    [] kind = "Modal" -> {"trigger", "content"}
    [] kind = "Button" -> {"child", "action"}
    [] kind = "CheckBox" -> {"label", "value"}
    [] kind = "TextField" -> {"label"}
    [] kind = "DateTimeInput" -> {"value"}
    [] kind = "ChoicePicker" -> {"options", "value"}
    [] kind = "Slider" -> {"value", "min", "max"}
    [] OTHER -> {}

Alone(i) == [k \in 1..i |-> IF k = i THEN Items[i] ELSE PrimComponent(Null)]
\* the errors entry i yields when it is the only component of the message
OwnErrors(i) ==
  Validate(called,
           OneKey("updateComponents",
                  UpdateComponentsBody(Str("s1"), ComponentsArray(Alone(i)))),
           options).errors
DuplicateError(i) ==
  Issue("DUPLICATE_COMPONENT_ID", "Duplicate component id: " \o ToStr(Items[i].id),
        Str(ComponentPath(i - 1) \o ".id"))
\* per entry from i on: its duplicate-id error, then its own errors
RECURSIVE ExpectedFrom(_)
ExpectedFrom(i) ==
  IF i > Len(Items) THEN <<>>
  ELSE (IF LaterOccurrence(i) THEN <<DuplicateError(i)>> ELSE <<>>)
         \o OwnErrors(i) \o ExpectedFrom(i + 1)

\* C11: the errors of a components array are, after the surfaceId error and
\* in index order, for each component its duplicate-id error (if its id was
\* seen before) and the errors it yields on its own; no error on a component
\* suppresses a later check.
C11_NoShortCircuit ==
  ComponentsCall =>
    result.errors = SurfaceIdCheck("updateComponents", message.updateComponents)
                      \o ExpectedFrom(1)

\* three components with errors of their own: an empty id, a bare Button, a
\* bare Button repeating the id
C11_Witness ==
  /\ ComponentsCall /\ called = "validateMessage" /\ Len(Items) = 3
  /\ HasIssue(result.errors, "MISSING_COMPONENT_ID", "updateComponents.components[0].id")
  /\ HasIssue(result.errors, "MISSING_REQUIRED_PROPERTY",
              "updateComponents.components[1].child")
  /\ HasIssue(result.errors, "DUPLICATE_COMPONENT_ID", "updateComponents.components[2].id")
  /\ HasIssue(result.errors, "MISSING_REQUIRED_PROPERTY",
              "updateComponents.components[2].child")
  /\ HasIssue(result.errors, "MISSING_REQUIRED_PROPERTY",
              "updateComponents.components[2].action")
  /\ Len(result.errors) >= 6

\* entry i has a non-empty kind that is neither standard nor allowed
UnknownKind(i) ==
  /\ Truthy(Items[i]) /\ Truthy(Items[i].component)
  /\ ~Includes(STANDARD_COMPONENT_TYPES, Items[i].component)
  /\ ~(options.allowedComponents.t = "array"
       /\ Includes(options.allowedComponents.items, Items[i].component))

\* C12: in the validator of message-validator.ts, a component of unknown
\* kind (not standard, not in allowedComponents, also when allowedComponents
\* is not supplied) gets warning UNKNOWN_COMPONENT_TYPE at
\* components[i].component exactly when strict is true, and never an error.
C12_UnknownComponentType ==
  (ComponentsCall /\ called = "validateV09Message") =>
    \A i \in 1..Len(Items) :
      /\ CountIssue(result.warnings, "UNKNOWN_COMPONENT_TYPE",
                    ComponentPath(i - 1) \o ".component")
           = (IF UnknownKind(i) /\ Truthy(options.strict) THEN 1 ELSE 0)
      /\ ~HasIssue(result.errors, "UNKNOWN_COMPONENT_TYPE",
                   ComponentPath(i - 1) \o ".component")

\* some component of the array has id === 'root'
HasRootItem == \E i \in 1..Len(Items) : Truthy(Items[i]) /\ Items[i].id = Str("root")

\* C13: for a components array, MISSING_ROOT_COMPONENT is produced exactly
\* when strict is true and no component has id 'root': one warning at
\* updateComponents.components, never an error, so valid is not affected.
C13_MissingRoot ==
  ComponentsCall =>
    /\ CountCode(result.warnings, "MISSING_ROOT_COMPONENT")
         = (IF Truthy(options.strict) /\ ~HasRootItem THEN 1 ELSE 0)
    /\ CountIssue(result.warnings, "MISSING_ROOT_COMPONENT", "updateComponents.components")
         = CountCode(result.warnings, "MISSING_ROOT_COMPONENT")
    /\ CountCode(result.errors, "MISSING_ROOT_COMPONENT") = 0
    /\ result.valid <=> Len(result.errors) = 0

\* a strict call on an array without root: valid, with the warning
C13_Witness ==
  /\ ComponentsCall /\ Truthy(options.strict)
  /\ Len(Items) > 0 /\ ~HasRootItem
  /\ result.valid
  /\ HasIssue(result.warnings, "MISSING_ROOT_COMPONENT", "updateComponents.components")

\* a call of the validator of message-validator.ts on an updateDataModel message
DataModelCall ==
  /\ called = "validateV09Message" /\ ~result.threw
  /\ Dispatch(message) = "updateDataModel"
OpOf == Get(message.updateDataModel, "op")
ValueOf == Get(message.updateDataModel, "value")

\* C14: for an updateDataModel message, INVALID_OP is reported at
\* updateDataModel.op exactly when op is present and is not one of add,
\* replace, remove.
C14_InvalidOp ==
  DataModelCall =>
    (CountIssue(result.errors, "INVALID_OP", "updateDataModel.op")
       = (IF OpOf.t \notin {"undefined", "null"} /\ ~Includes(ValidOps, OpOf)
          THEN 1 ELSE 0))

\* C15: for an updateDataModel message with op 'remove', a value that is
\* not undefined gets warning UNNECESSARY_VALUE at updateDataModel.value and
\* no error, so the message is valid when its surfaceId is non-empty; without
\* a value there is no such warning.
C15_UnnecessaryValue ==
  (DataModelCall /\ OpOf = Str("remove")) =>
    /\ CountIssue(result.warnings, "UNNECESSARY_VALUE", "updateDataModel.value")
         = (IF ValueOf # Undefined THEN 1 ELSE 0)
    /\ CountCode(result.errors, "UNNECESSARY_VALUE") = 0
    /\ Truthy(message.updateDataModel.surfaceId) => result.valid

\* remove with value 'unused' on surface s1: valid, with the warning
C15_Witness ==
  /\ DataModelCall /\ OpOf = Str("remove") /\ ValueOf = Str("unused")
  /\ result.valid
  /\ HasIssue(result.warnings, "UNNECESSARY_VALUE", "updateDataModel.value")

BatchCall == called \in {"validateMessages", "validateMessagesV09"} /\ ~result.threw
BatchImpl == IF called = "validateMessagesV09" THEN "validateV09Message" ELSE "validateMessage"
\* the result of validating entry i (1-based) of the batch on its own
Individual(i) == Validate(BatchImpl, messages[i], options)
\* the errors / warnings entry i contributes: none for a skipped entry
Part(i, field) == IF Truthy(messages[i]) THEN Individual(i)[field] ELSE <<>>
RECURSIVE Offset(_, _)
Offset(i, field) == IF i <= 1 THEN 0 ELSE Offset(i - 1, field) + Len(Part(i - 1, field))
InnerPath(issue) == IF issue.path \in {Undefined, Null} THEN "" ELSE issue.path.s
\* the list of the batch result is the lists of the entries one after the
\* other, every issue unchanged but for its path
Concatenated(field) ==
  /\ Len(result[field]) = Offset(Len(messages) + 1, field)
  /\ \A i \in 1..Len(messages) :
       \A k \in 1..Len(Part(i, field)) :
         LET inner == Part(i, field)[k]
             outer == result[field][Offset(i, field) + k]
         IN /\ outer.code = inner.code
            /\ outer.message = inner.message
            /\ outer.path = Str("messages[" \o ToString(i - 1) \o "]." \o InnerPath(inner))

\* C17: the errors and the warnings of validateMessages are, in ascending
\* message index, the errors and warnings of validateMessage on each message
\* in their original order, each path prefixed with 'messages[i].'; the
\* batch is valid exactly when every individual result is valid.
C17_BatchConcatenation ==
  BatchCall =>
    /\ Concatenated("errors")
    /\ Concatenated("warnings")
    /\ result.valid <=> \A i \in 1..Len(messages) : Truthy(messages[i]) => Individual(i).valid

\* two invalid messages: errors of messages[0] before those of messages[1],
\* one of them without an inner path
C17_Witness ==
  /\ BatchCall /\ Len(messages) = 2
  /\ Len(Part(1, "errors")) = 2 /\ Len(Part(2, "errors")) = 1
  /\ result.errors[1].path = Str("messages[0].createSurface.surfaceId")
  /\ result.errors[2].path = Str("messages[0].createSurface.catalogId")
  /\ result.errors[3].code = "INVALID_MESSAGE_TYPE"
  /\ result.errors[3].path = Str("messages[1].")
  /\ ~result.valid

\* the same call with strict: true and with strict: false
WithStrict(x) == Validate(called, message, [options EXCEPT !.strict = Bool(x)])
IsIn(issue, list) == \E k \in DOMAIN list : list[k] = issue

\* C18: for every message and allowedComponents, the errors with strict:
\* true are the errors with strict: false, the result of the call is one of
\* the two, and every warning given with strict: false is given with strict:
\* true.
C18_StrictMonotone ==
  Returned =>
    /\ WithStrict(TRUE).errors = WithStrict(FALSE).errors
    /\ result.errors = WithStrict(TRUE).errors
    /\ \A k \in DOMAIN WithStrict(FALSE).warnings :
         IsIn(WithStrict(FALSE).warnings[k], WithStrict(TRUE).warnings)
    /\ result.warnings = WithStrict(Truthy(options.strict)).warnings

\* an invalid strict call whose warnings are more than those without strict
C18_Witness ==
  /\ Returned /\ Truthy(options.strict)
  /\ Len(result.errors) > 0
  /\ Len(WithStrict(FALSE).warnings) < Len(result.warnings)
  /\ HasIssue(result.warnings, "MISSING_ROOT_COMPONENT", "updateComponents.components")

\* a call, single or batch, that returned and was made without strict
NonStrictCall == called # "none" /\ ~result.threw /\ ~Truthy(options.strict)

\* C19 as stated: with strict false or absent the returned warnings list is
\* empty.
C19_NoWarningsWithoutStrict ==
  NonStrictCall => result.warnings = <<>>

\* C19, amended: with strict false or absent no UNKNOWN_COMPONENT_TYPE and no
\* MISSING_ROOT_COMPONENT warning is returned; the only warnings of such a
\* call are INVALID_PRIMARY_COLOR and UNNECESSARY_VALUE.
C19_StrictOnlyWarnings ==
  NonStrictCall =>
    \A k \in DOMAIN result.warnings :
      result.warnings[k].code \in {"INVALID_PRIMARY_COLOR", "UNNECESSARY_VALUE"}

\* a call without strict on a remove carrying a value returns the warning
C19_Witness ==
  /\ NonStrictCall /\ called = "validateV09Message"
  /\ options.strict = Undefined
  /\ Len(result.warnings) = 1
  /\ result.warnings[1].code = "UNNECESSARY_VALUE"

\* two calls of the history made with the same function on the same
\* arguments
SameCall(i, j) ==
  /\ history[i].fn = history[j].fn
  /\ history[i].message = history[j].message
  /\ history[i].messages = history[j].messages
  /\ history[i].options = history[j].options

BatchDispatch(i) ==
  IF Truthy(messages[i]) /\ messages[i].t = "object" THEN Dispatch(messages[i]) ELSE "none"
SurfaceOf(i) ==
  IF BatchDispatch(i) = "none" \/ ~CanRead(messages[i][BatchDispatch(i)]) THEN Undefined
  ELSE messages[i][BatchDispatch(i)].surfaceId
\* an earlier createSurface of the batch created sid and no deleteSurface
\* between it and entry i removed it
Live(i, sid) ==
  \E j \in 1..(i - 1) :
    /\ BatchDispatch(j) = "createSurface" /\ SurfaceOf(j) = sid
    /\ ~\E k \in (j + 1)..(i - 1) : BatchDispatch(k) = "deleteSurface" /\ SurfaceOf(k) = sid
\* entry i names a surface that does not exist at its place in the batch
Orphan(i) ==
  /\ BatchDispatch(i) \in {"updateComponents", "updateDataModel", "deleteSurface"}
  /\ Truthy(SurfaceOf(i))
  /\ ~Live(i, SurfaceOf(i))
\* the components of entry i, none unless it is an updateComponents message
\* with an array
BatchItems(i) ==
  IF BatchDispatch(i) = "updateComponents"
     /\ ComponentsOf(messages[i].updateComponents).t = "array"
  THEN ComponentsOf(messages[i].updateComponents).items ELSE <<>>
\* the places of entry i whose id repeats an earlier id of the same entry
RepeatsWithin(i) ==
  {k \in 1..Len(BatchItems(i)) :
     /\ Truthy(BatchItems(i)[k]) /\ Truthy(BatchItems(i)[k].id)
     /\ \E j \in 1..(k - 1) : Truthy(BatchItems(i)[j])
                              /\ BatchItems(i)[j].id = BatchItems(i)[k].id}
RECURSIVE RepeatsUpTo(_)
RepeatsUpTo(i) == IF i = 0 THEN 0 ELSE RepeatsUpTo(i - 1) + Cardinality(RepeatsWithin(i))

\* C21: validateMessages enforces nothing across messages: an entry naming
\* a surface that no earlier createSurface created, or that an earlier
\* deleteSurface removed, gets no error for it, so a batch whose entries are
\* each valid alone is valid; and DUPLICATE_COMPONENT_ID counts repetitions
\* inside one updateComponents message only.
C21_NoCrossMessageChecks ==
  BatchCall =>
    /\ \A i \in 1..Len(messages) :
         Orphan(i) =>
           ~HasIssue(result.errors, "MISSING_SURFACE_ID",
                     "messages[" \o ToString(i - 1) \o "]." \o BatchDispatch(i) \o ".surfaceId")
    /\ (\A i \in 1..Len(messages) : Truthy(messages[i]) => Individual(i).valid)
         => (result.valid /\ result.errors = <<>>)
    /\ CountCode(result.errors, "DUPLICATE_COMPONENT_ID") = RepeatsUpTo(Len(messages))

\* two updateComponents messages on a surface nothing created, both using
\* the id x: a valid batch
C21_Witness ==
  /\ BatchCall /\ Len(messages) = 2
  /\ Orphan(1) /\ Orphan(2)
  /\ BatchDispatch(1) = "updateComponents" /\ BatchDispatch(2) = "updateComponents"
  /\ Len(BatchItems(1)) = 1 /\ Len(BatchItems(2)) = 1
  /\ BatchItems(1)[1].id = Str("x") /\ BatchItems(2)[1].id = Str("x")
  /\ result.valid /\ result.errors = <<>>

\* C22: isPathBinding is true exactly for a non-null, non-array object
\* with a key path; for a string, number or boolean it is false,
\* getLiteralValue gives the value back and getPathValue gives undefined;
\* for an object {path: s} it is true, getLiteralValue gives undefined and
\* getPathValue gives s.
C22_BindingDuality ==
  LET binding == arg.t = "object" /\ "path" \in arg.keys
      scalar == arg.t \in {"string", "number", "boolean"}
  IN (util # "none") =>
       /\ ~out.threw
       /\ util = "isPathBinding" => (out.b <=> binding)
       /\ (util = "getLiteralValue" /\ scalar) => out.v = arg
       /\ (util = "getLiteralValue" /\ binding) => out.v.t = "undefined"
       /\ (util = "getPathValue" /\ scalar) => out.v.t = "undefined"
       /\ (util = "getPathValue" /\ binding) => out.v = Plain(arg.path)

\* C23: for null, isPathBinding gives false, getLiteralValue and
\* getPathValue give undefined, and none of the three throws.
C23_Null ==
  (util # "none" /\ arg.t = "null") =>
    /\ ~out.threw
    /\ util = "isPathBinding" => ~out.b
    /\ util \in {"getLiteralValue", "getPathValue"} => out.v.t = "undefined"

\* ------------------------------------------------------------------------
\* builders/id-generator.ts, builders/component-builder.ts and the message
\* builders, as far as the validators read what they build
\* ------------------------------------------------------------------------
\* `${prefix}_${Date.now()}_${componentIdCounter++}`: the string returned
generateId(prefix, time, counter) ==
  Str(prefix \o "_" \o ToString(time) \o "_" \o ToString(counter))
\* the clock reading of the builder calls of one message
BuildTime == 1703
\* const { id = generateId(prefix), ... } = options
IdOption(given, prefix, counter) ==
  IF given = Undefined THEN generateId(prefix, BuildTime, counter) ELSE given
With(f, v) == [NoProps EXCEPT ![f] = v]
With2(f, v, g, w) == [NoProps EXCEPT ![f] = v, ![g] = w]

text(content, id) == Component(id, Str("Text"), With("text", content))
image(url, id) == Component(id, Str("Image"), With("url", url))
icon(name, id) == Component(id, Str("Icon"), With("name", name))
video(url, id) == Component(id, Str("Video"), With("url", url))
audioPlayer(url, id) == Component(id, Str("AudioPlayer"), With("url", url))
row(children, id) == Component(id, Str("Row"), With("children", children))
column(children, id) == Component(id, Str("Column"), With("children", children))
list(children, id) == Component(id, Str("List"), With("children", children))
card(childId, id) == Component(id, Str("Card"), With("child", childId))
\* the items go under the key tabItems, which no check reads
tabs(items, id) == Component(id, Str("Tabs"), NoProps)
divider(id) == Component(id, Str("Divider"), NoProps)
\* the two ids go under the keys entryPointChild and contentChild
modal(entryPointChildId, contentChildId, id) == Component(id, Str("Modal"), NoProps)
button(childId, action, id) ==
  Component(id, Str("Button"), With2("child", childId, "action", action))
checkbox(label, value, id) ==
  Component(id, Str("CheckBox"), With2("label", label, "value", value))
\* ...(textValue !== undefined && { text: textValue })
textField(label, textValue, id) ==
  Component(id, Str("TextField"), With2("label", label, "text", textValue))
dateTimeInput(value, id) == Component(id, Str("DateTimeInput"), With("value", value))
choicePicker(optionsList, value, id) ==
  Component(id, Str("ChoicePicker"), With2("options", optionsList, "value", value))
\* ...(min !== undefined && { min }), ...(max !== undefined && { max })
slider(value, min, max, id) ==
  Component(id, Str("Slider"),
            [NoProps EXCEPT !["value"] = value, !["min"] = min, !["max"] = max])

STANDARD_CATALOG_ID == Str("https://a2ui.dev/specification/v0_9/standard_catalog.json")
\* const { catalogId = STANDARD_CATALOG_ID, theme } = options; ...(theme && { theme })
createSurface(surfaceId, catalogId, theme) ==
  OneKey("createSurface",
         Body(surfaceId, IF catalogId = Undefined THEN STANDARD_CATALOG_ID ELSE catalogId,
              IF theme.t = "object" THEN theme ELSE ThemeOther(Undefined),
              NoComponents, Undefined, Undefined))
updateComponents(surfaceId, components) ==
  OneKey("updateComponents", UpdateComponentsBody(surfaceId, ComponentsArray(components)))
\* op = 'replace' by default; ...(op !== 'remove' && { value })
updateDataModel(surfaceId, value, op) ==
  LET used == IF op = Undefined THEN Str("replace") ELSE op
  IN OneKey("updateDataModel",
            Body(surfaceId, Undefined, ThemeOther(Undefined), NoComponents, used,
                 IF used # Str("remove") THEN value ELSE Undefined))
deleteSurface(surfaceId) ==
  OneKey("deleteSurface",
         Body(surfaceId, Undefined, ThemeOther(Undefined), NoComponents, Undefined, Undefined))

\* well-typed arguments of the builders
StringOrPaths == {Str("Hello"), Str(""), Obj("{path}")}
ChildrenProperties == {Arr("[ids]"), Obj("{componentId, path}")}
IdOptions(counter) == {Undefined, Str("c" \o ToString(counter))}
\* what the component builders return when called as the call number
\* counter of a message
BuiltBy(counter) ==
  UNION {
    {text(v, IdOption(g, "text", counter)), image(v, IdOption(g, "image", counter)),
     icon(v, IdOption(g, "icon", counter)), video(v, IdOption(g, "video", counter)),
     audioPlayer(v, IdOption(g, "audio", counter)),
     dateTimeInput(v, IdOption(g, "datetime", counter)),
     checkbox(v, Bool(FALSE), IdOption(g, "checkbox", counter)),
     textField(v, Undefined, IdOption(g, "textfield", counter)),
     textField(v, Str("typed"), IdOption(g, "textfield", counter))}
      \cup {row(c, IdOption(g, "row", counter)), column(c, IdOption(g, "column", counter)),
            list(c, IdOption(g, "list", counter))}
      \cup {card(Str("child"), IdOption(g, "card", counter)),
            tabs(Arr("[items]"), IdOption(g, "tabs", counter)),
            divider(IdOption(g, "divider", counter)),
            modal(Str("entry"), Str("content"), IdOption(g, "modal", counter)),
            button(Str("child"), Obj("{name}"), IdOption(g, "button", counter)),
            choicePicker(Arr("[options]"), Arr("[values]"), IdOption(g, "choice", counter)),
            slider(Num(50), Undefined, Undefined, IdOption(g, "slider", counter)),
            slider(Num(50), Num(0), Num(100), IdOption(g, "slider", counter))}
    : v \in StringOrPaths, c \in ChildrenProperties, g \in IdOptions(counter)}
\* the second components of the two-component messages
SecondBuilt ==
  {c \in BuiltBy(1) : c.component \in {Str("Text"), Str("Button"), Str("Tabs")}
                      /\ Prop(c, "text") \in {Undefined, Str("Hello")}}
\* the messages the message builders return
BuiltMessages ==
  {updateComponents(Str("s1"), <<c>>) : c \in BuiltBy(0)}
    \cup {updateComponents(Str("s1"), <<text(Str("Hello"), Str("c0")), c>>) : c \in SecondBuilt}
    \cup {updateComponents(Str("s1"), <<>>)}
    \cup {createSurface(Str("s1"), c, th) :
            c \in {Undefined, Str("c1")}, th \in {ThemeOther(Undefined), Theme(ColorStr(<<"r", "e", "d">>))}}
    \cup {updateDataModel(Str("s1"), v, op) :
            v \in {Undefined, Null, Obj("{...}")},
            op \in {Undefined, Str("add"), Str("replace"), Str("remove")}}
    \cup {deleteSurface(Str("s1"))}

\* ------------------------------------------------------------------------
\* One validation of a message the builders returned
\* ------------------------------------------------------------------------
InitBuild ==
  /\ called = "none" /\ result = NoResult /\ history = <<>>
  /\ OthersIdle
  /\ isBatch = FALSE /\ messages = <<>>
  /\ message \in BuiltMessages
  /\ options = Options(Undefined, NoAllowed)

NextBuild ==
  \/ CallValidateMessage
  \/ CallValidateV09Message

SpecBuild == InitBuild /\ [][NextBuild]_vars

\* C24: every message the builders return, with distinct component ids and
\* a non-empty surfaceId, is valid: validateMessage reports no error.
C24_BuilderOutputValid ==
  Returned => (result.valid /\ result.errors = <<>>)

\* C25: one Action shape is accepted, the wrapper {event: {name, context}}
\* of this protocol version: a Button whose action is the bare {name,
\* context} of the other version, or no Action at all, is reported invalid,
\* with an error at its action.
C25_OneActionShape ==
  (ComponentsCall /\ called = "validateMessage") =>
    \A i \in 1..Len(Items) :
      (/\ Truthy(Items[i]) /\ Items[i].component = Str("Button")
       /\ Prop(Items[i], "action") \notin {Undefined, EventAction})
        => /\ ~result.valid
           /\ \E k \in DOMAIN result.errors :
                result.errors[k].path = Str(ComponentPath(i - 1) \o ".action")


\* ------------------------------------------------------------------------
\* C26: every code that a validator call puts in errors or warnings is one of
\* the fourteen codes of the closed set.
\* ------------------------------------------------------------------------
ClosedCodeSet ==
  {"MISSING_SURFACE_ID", "MISSING_CATALOG_ID", "INVALID_PRIMARY_COLOR", "INVALID_COMPONENTS",
   "MISSING_COMPONENT_ID", "DUPLICATE_COMPONENT_ID", "MISSING_COMPONENT_TYPE",
   "UNKNOWN_COMPONENT_TYPE", "MISSING_ROOT_COMPONENT", "MISSING_REQUIRED_PROPERTY",
   "INVALID_OP", "UNNECESSARY_VALUE", "MISSING_VALUE", "INVALID_MESSAGE_TYPE"}
CodesOf(r) ==
  {r.errors[k].code : k \in DOMAIN r.errors} \cup {r.warnings[k].code : k \in DOMAIN r.warnings}
C26_ClosedCodeSet ==
  called # "none" => CodesOf(result) \subseteq ClosedCodeSet


\* ------------------------------------------------------------------------
\* A program that calls generateId and resetIdCounter while the clock runs
\* ------------------------------------------------------------------------
Prefixes == {"comp", "text"}

InitIds ==
  /\ ValidatorIdle /\ UtilsIdle /\ SchemaIdle
  /\ componentIdCounter = 0
  /\ clock = BuildTime
  /\ generated = <<>>

\* generateId(prefix): the counter is read, then incremented
CallGenerateId ==
  /\ Len(generated) < MaxIds
  /\ \E prefix \in Prefixes :
       generated' = Append(generated,
                           [prefix |-> prefix,
                            id |-> generateId(prefix, clock, componentIdCounter)])
  /\ componentIdCounter' = componentIdCounter + 1
  /\ UNCHANGED <<clock, validatorVars, utilVars, schemaVars>>

\* resetIdCounter()
CallResetIdCounter ==
  /\ componentIdCounter' = 0
  /\ UNCHANGED <<clock, generated, validatorVars, utilVars, schemaVars>>

\* a millisecond passes: Date.now() gives the next number
Tick ==
  /\ clock < BuildTime + MaxClock
  /\ clock' = clock + 1
  /\ UNCHANGED <<componentIdCounter, generated, validatorVars, utilVars, schemaVars>>

NextIds == CallGenerateId \/ CallResetIdCounter \/ Tick

SpecIds == InitIds /\ [][NextIds]_vars

\* C27: no two generateId calls with the same prefix return the same string,
\* whatever generateId and resetIdCounter calls are made.
C27_UniqueIds ==
  \A i, j \in DOMAIN generated :
    (i # j /\ generated[i].prefix = generated[j].prefix)
      => generated[i].id # generated[j].id


\* ------------------------------------------------------------------------
\* validators/schema-validator.ts: the default validator and the functions
\* that go through it.  A call runs to its end before the next one starts;
\* what Ajv answers about a message is not part of the model.
\* ------------------------------------------------------------------------
NoValidator == 0

\* mutant: no test of defaultValidator, every call constructs
getSchemaValidatorMutant(held, made) ==
  [defaultValidator |-> made + 1, instances |-> made + 1, constructed |-> 1]
\* if (!defaultValidator) defaultValidator = new A2UISchemaValidator(); return defaultValidator
getSchemaValidator(held, made) ==
  IF held = NoValidator
  THEN [defaultValidator |-> made + 1, instances |-> made + 1, constructed |-> 1]
  ELSE [defaultValidator |-> held, instances |-> made, constructed |-> 0]

SchemaFunctions ==
  {"getSchemaValidator", "validateWithSchema", "validateClientMessage",
   "validateMessagesWithSchema"}

InitSchema ==
  /\ ValidatorIdle /\ UtilsIdle /\ IdsIdle
  /\ defaultValidator = NoValidator
  /\ instances = 0
  /\ constructions = 0
  /\ schemaLog = <<>>

\* what a call of fn does to the module state: getSchemaValidator() and, but
\* for the accessor itself, a method of the instance it returns
ThroughAccessor(fn) ==
  LET got == getSchemaValidator(defaultValidator, instances)
  IN /\ defaultValidator' = got.defaultValidator
     /\ instances' = got.instances
     /\ constructions' = constructions + got.constructed
     /\ schemaLog' = Append(schemaLog, [fn |-> fn, instance |-> got.defaultValidator])

CallGetSchemaValidator ==
  /\ Len(schemaLog) < MaxSchemaCalls
  /\ ThroughAccessor("getSchemaValidator")
  /\ UNCHANGED <<validatorVars, utilVars, idVars>>

CallValidateWithSchema ==
  /\ Len(schemaLog) < MaxSchemaCalls
  /\ ThroughAccessor("validateWithSchema")
  /\ UNCHANGED <<validatorVars, utilVars, idVars>>

CallValidateClientMessage ==
  /\ Len(schemaLog) < MaxSchemaCalls
  /\ ThroughAccessor("validateClientMessage")
  /\ UNCHANGED <<validatorVars, utilVars, idVars>>

CallValidateMessagesWithSchema ==
  /\ Len(schemaLog) < MaxSchemaCalls
  /\ ThroughAccessor("validateMessagesWithSchema")
  /\ UNCHANGED <<validatorVars, utilVars, idVars>>

\* new A2UISchemaValidator() by the program itself: the class is exported
NewSchemaValidator ==
  /\ instances < MaxSchemaCalls
  /\ instances' = instances + 1
  /\ UNCHANGED <<defaultValidator, constructions, schemaLog, validatorVars, utilVars, idVars>>

NextSchema ==
  \/ CallGetSchemaValidator
  \/ CallValidateWithSchema
  \/ CallValidateClientMessage
  \/ CallValidateMessagesWithSchema
  \/ NewSchemaValidator

SpecSchema == InitSchema /\ [][NextSchema]_vars

\* C28: the accessor constructs an A2UISchemaValidator at most once and not
\* before the first call that goes through it, and every call gets the
\* instance the first one got.
C28_LazySingleton ==
  /\ constructions <= 1
  /\ schemaLog = <<>> => (constructions = 0 /\ defaultValidator = NoValidator)
  /\ schemaLog # <<>> => (constructions = 1 /\ defaultValidator # NoValidator)
  /\ \A i \in DOMAIN schemaLog : schemaLog[i].instance = schemaLog[1].instance
C28_Witness ==
  /\ Len(schemaLog) >= 3
  /\ schemaLog[1].fn = "validateWithSchema"
  /\ schemaLog[2].fn = "getSchemaValidator"
  /\ schemaLog[3].fn = "getSchemaValidator"
  /\ instances >= 2


\* ------------------------------------------------------------------------
\* C29: of a message with several recognized keys only the first one, in the
\* order createSurface, updateComponents, updateDataModel, deleteSurface, is
\* checked: the result is the one of the message with that key alone, and it
\* has no INVALID_MESSAGE_TYPE.
\* ------------------------------------------------------------------------
KeyOrder == <<"createSurface", "updateComponents", "updateDataModel", "deleteSurface">>
ManyKeys == Cardinality(message.keys \cap MessageKeys) >= 2
FirstKey ==
  KeyOrder[CHOOSE i \in DOMAIN KeyOrder :
             /\ KeyOrder[i] \in message.keys
             /\ \A j \in 1..(i - 1) : KeyOrder[j] \notin message.keys]
C29_FirstKeyOnly ==
  (Returned /\ ManyKeys)
    => /\ result = Validate(called, OneKey(FirstKey, message[FirstKey]), options)
       /\ \A k \in DOMAIN result.errors : result.errors[k].code # "INVALID_MESSAGE_TYPE"
C29_Witness ==
  /\ Returned /\ ManyKeys
  /\ message.keys = {"createSurface", "deleteSurface"}
  /\ message.createSurface = GoodBody("createSurface")
  /\ message.deleteSurface = BadBody
  /\ result.valid


\* ------------------------------------------------------------------------
\* C30: an entry of the messages array or of the components array that is
\* null or undefined is skipped: no error and no warning is about it, the
\* entries after it are reported under their own index, and a batch or a
\* components array of such entries only is valid.
\* ------------------------------------------------------------------------
\* if (!entry) continue: null and undefined, and the other falsy values with them
Skipped(v) == ~Truthy(v)
\* the paths an issue about entry i (0-based) of the components array can have
EntryPaths(i) ==
  {Str(ComponentPath(i) \o suffix) :
     suffix \in {"", ".id", ".component"} \cup {"." \o f : f \in PropNames}}
PathsOf(r) ==
  {r.errors[k].path : k \in DOMAIN r.errors} \cup {r.warnings[k].path : k \in DOMAIN r.warnings}
\* the issues of a batch result that entry i (1-based) accounts for
FromEntry(i, field) ==
  {k \in DOMAIN result[field] :
     \E inner \in Range(Individual(i)[field]) :
       /\ result[field][k].code = inner.code
       /\ result[field][k].path = Str("messages[" \o ToString(i - 1) \o "]." \o InnerPath(inner))}
C30_FalsySkipped ==
  /\ ComponentsCall =>
       /\ \A i \in DOMAIN Items : Skipped(Items[i]) => PathsOf(result) \cap EntryPaths(i - 1) = {}
       /\ \A i \in DOMAIN Items :
            (~Skipped(Items[i]) /\ ~Truthy(Items[i].id))
              => HasIssue(result.errors, "MISSING_COMPONENT_ID", ComponentPath(i - 1) \o ".id")
       /\ ((\A i \in DOMAIN Items : Skipped(Items[i]))
             /\ Truthy(message.updateComponents.surfaceId))
            => (result.valid /\ result.errors = <<>>)
  /\ BatchCall =>
       /\ \A field \in {"errors", "warnings"} :
            /\ \A k \in DOMAIN result[field] :
                 \E i \in DOMAIN messages : ~Skipped(messages[i]) /\ k \in FromEntry(i, field)
            /\ \A i \in DOMAIN messages :
                 ~Skipped(messages[i])
                   => Cardinality(FromEntry(i, field)) >= Cardinality(Range(Individual(i)[field]))
       /\ (\A i \in DOMAIN messages : Skipped(messages[i]))
            => (result.valid /\ result.errors = <<>> /\ result.warnings = <<>>)
\* a components array [null, {component: 'Text'}, undefined]: the one error is at index 1
C30_Witness ==
  /\ ComponentsCall /\ Len(Items) = 3
  /\ Items[1] = PrimComponent(Null) /\ Items[3] = PrimComponent(Undefined)
  /\ ~Skipped(Items[2]) /\ ~Truthy(Items[2].id)
  /\ Len(result.errors) = 1
  /\ result.errors[1].path = Str("updateComponents.components[1].id")
\* a batch [null, {createSurface without ids}]: its errors are under messages[1]
C30_BatchWitness ==
  /\ BatchCall /\ Len(messages) = 2
  /\ messages[1] = MessageOther(Null) /\ ~Skipped(messages[2])
  /\ Len(result.errors) = 2
  /\ result.errors[1].path = Str("messages[1].createSurface.surfaceId")

====
